---------------------------- MODULE Spec2Model ----------------------------
(***************************************************************************)
(* A model of the binned data / covariance aggregation engine of baofit.   *)
(*                                                                         *)
(*  - LyaData (src/src/baofit.cc): the combined dataset `data` of main()   *)
(*    with its operations load, add, finalize, reset, compress and prune.  *)
(*  - QuasarCorrelationData (src/unnamed/part_002): the dataset that       *)
(*    loadCosmolib fills, with fixCovariance, finalize and the (r,mu,z)    *)
(*    accessors.                                                           *)
(*                                                                         *)
(* Numbers are exact rationals <<numerator, denominator>> in lowest terms  *)
(* with a positive denominator, so that sums, products and inverses of     *)
(* covariance matrices are computed, not assumed.                          *)
(*                                                                         *)
(* likely::CovarianceMatrix, likely::BinnedData and AbsCorrelationData are *)
(* classes whose code is not in src/; their operations are modelled from   *)
(* the specification (sections 4.3 and 4.4) and are marked as such.        *)
(*                                                                         *)
(* A failed assert() aborts the process, and main() answers an exception   *)
(* by printing it and returning: the model records the outcome of a failed *)
(* call, with the object as the code left it, and no operation follows.    *)
(***************************************************************************)
EXTENDS Integers, Sequences, FiniteSets, TLC

(***************************************************************************)
(* Bounds of the model.                                                    *)
(***************************************************************************)
\* number of bins along the log-lambda, separation and redshift axes
NLL == 2
NSEP == 3
NZ == 2
\* largest number of add() calls accepted between two reset() calls
MaxAdds == 2
\* largest bootstrap size: the sum of the repeat counts of those calls
MaxSize == 3
MaxLines == 2
\* most calls of applyTheoryOffsets on one plate
MaxOffsets == 2
\* most bins asked of twoStepSampling
MaxBins == 4
\* most bootstrap trials (--bootstrap)
MaxTrials == 2
\* most calls of fixCovariance on one dataset
MaxFixes == 2
MaxCalls == 2

(***************************************************************************)
(* Exact rational arithmetic.                                              *)
(***************************************************************************)
Abs(x) == IF x < 0 THEN -x ELSE x

RECURSIVE GCD(_, _)
GCD(a, b) == IF b = 0 THEN a ELSE GCD(b, a % b)

\* the rational n/d (d # 0) in lowest terms with a positive denominator
Rat(n, d) ==
    LET g == GCD(Abs(n), Abs(d))
        s == IF d < 0 THEN -1 ELSE 1
    IN  << (s * n) \div g, (s * d) \div g >>

RInt(i) == << i, 1 >>
RZero == RInt(0)
RAdd(x, y) == Rat(x[1] * y[2] + y[1] * x[2], x[2] * y[2])
RSub(x, y) == Rat(x[1] * y[2] - y[1] * x[2], x[2] * y[2])
RMul(x, y) == Rat(x[1] * y[1], x[2] * y[2])
RDiv(x, y) == Rat(x[1] * y[2], x[2] * y[1])
RLess(x, y) == x[1] * y[2] < y[1] * x[2]

RECURSIVE RSum(_, _)
\* sum of f[1..n] for a sequence (or function) f of rationals
RSum(f, n) == IF n = 0 THEN RZero ELSE RAdd(RSum(f, n - 1), f[n])

(***************************************************************************)
(* Vectors are sequences of rationals, matrices are sequences of rows.     *)
(***************************************************************************)
ZeroVec(n) == [k \in 1..n |-> RZero]
ZeroMat(n) == [i \in 1..n |-> [j \in 1..n |-> RZero]]
IntVec(v) == [k \in 1..Len(v) |-> RInt(v[k])]
IntMat(m) == [i \in 1..Len(m) |-> [j \in 1..Len(m) |-> RInt(m[i][j])]]
VecAdd(u, v) == [k \in 1..Len(u) |-> RAdd(u[k], v[k])]
VecScale(w, v) == [k \in 1..Len(v) |-> RMul(RInt(w), v[k])]
MatAdd(a, b) == [i \in 1..Len(a) |-> [j \in 1..Len(a) |-> RAdd(a[i][j], b[i][j])]]
MatScale(w, a) == [i \in 1..Len(a) |-> [j \in 1..Len(a) |-> RMul(RInt(w), a[i][j])]]
MatVec(a, v) ==
    [i \in 1..Len(a) |-> RSum([j \in 1..Len(a) |-> RMul(a[i][j], v[j])], Len(a))]
MatMul(a, b) ==
    [i \in 1..Len(a) |->
        [j \in 1..Len(a) |->
            RSum([k \in 1..Len(a) |-> RMul(a[i][k], b[k][j])], Len(a))]]

\* the matrix a without row r and column c
Minor(a, r, c) ==
    LET n == Len(a)
        skip(k, x) == IF k < x THEN k ELSE k + 1
    IN  [i \in 1..(n - 1) |-> [j \in 1..(n - 1) |-> a[skip(i, r)][skip(j, c)]]]

RECURSIVE Det(_)
\* determinant by expansion along the first row
Det(a) ==
    IF Len(a) = 0 THEN RInt(1)
    ELSE RSum([j \in 1..Len(a) |->
                  RMul(RInt(IF j % 2 = 1 THEN 1 ELSE -1),
                       RMul(a[1][j], Det(Minor(a, 1, j))))], Len(a))

\* the inverse of a non-singular matrix (adjugate over determinant)
Inverse(a) ==
    LET d == Det(a)
    IN  [i \in 1..Len(a) |->
            [j \in 1..Len(a) |->
                RDiv(RMul(RInt(IF (i + j) % 2 = 0 THEN 1 ELSE -1),
                          Det(Minor(a, j, i))), d)]]


(***************************************************************************)
(* The three-axis binning.  Bin centres are on an integer grid; the        *)
(* cosmology that turns (ll,sep,z) into co-moving coordinates is an        *)
(* external collaborator and is tabulated on an integer grid as well.      *)
(***************************************************************************)
Index_swapped(logLambdaBin, separationBin, redshiftBin) ==
    (logLambdaBin * NZ + separationBin) * NSEP + redshiftBin

\* LyaData::addData: index = (logLambdaBin*_nsep + separationBin)*_nz + redshiftBin
Index(logLambdaBin, separationBin, redshiftBin) ==
    (logLambdaBin * NSEP + separationBin) * NZ + redshiftBin

\* the per-axis bin indices of a global index (likely::BinnedData::getBinIndices)
getBinIndices(index) ==
    << index \div (NSEP * NZ), (index \div NZ) % NSEP, index % NZ >>

\* the centre of a bin along each axis (likely::AbsBinning::getBinCenter)
getBinCenter(axis, bin) == bin + 1

\* the bin centres of a global index (likely::BinnedData::getBinCenters)
getBinCenters(index) ==
    [axis \in 1..3 |-> getBinCenter(axis, getBinIndices(index)[axis])]

\* LyaData::transform: r3d grows with the line-of-sight separation (set by
\* ll) and with the transverse separation (set by sep); mu = |drLos|/r3d is
\* kept in percent.  The two-norm of the source is tabulated as the sum.
transform(ll, sep, z) ==
    LET drLos == 10 * ll
        drPerp == 30 * (sep - 1)
        r3d == drLos + drPerp
    IN  [r3d |-> r3d, mu |-> (100 * Abs(drLos)) \div r3d]

\* the radius and cosine the transform gives for the centre of a bin
binRadius(index) ==
    LET c == getBinCenters(index) IN transform(c[1], c[2], c[3]).r3d
binCosAngle(index) ==
    LET c == getBinCenters(index) IN transform(c[1], c[2], c[3]).mu

(***************************************************************************)
(* likely::CovarianceMatrix, held through a boost::shared_ptr.  The store  *)
(* is kept in its inverse representation.                                  *)
(***************************************************************************)
NullStore == [isNull |-> TRUE, icov |-> << >>, compressed |-> FALSE]
\* new lk::CovarianceMatrix(n)
NewStore(n) == [isNull |-> FALSE, icov |-> ZeroMat(n), compressed |-> FALSE]
\* addInverse(other, weight): this.inverse += weight * other.inverse
addInverse(store, other, weight) ==
    [store EXCEPT !.icov = MatAdd(store.icov, MatScale(weight, other.icov))]
\* multiplyByInverseCovariance(vec)
multiplyByInverseCovariance(store, vec) == MatVec(store.icov, vec)
\* multiplyByCovariance(vec): invert, then multiply
multiplyByCovariance(store, vec) == MatVec(Inverse(store.icov), vec)
\* replaceWithTripleProduct(tilde): the inverse covariance becomes
\* tilde.icov * (this.icov)^-1 * tilde.icov
replaceWithTripleProduct(store, tilde) ==
    [store EXCEPT !.icov = MatMul(tilde.icov, MatMul(Inverse(store.icov), tilde.icov))]
\* getCovariance(i,j), 0-based as in the source
getCovariance(store, i, j) == Inverse(store.icov)[i + 1][j + 1]
\* compress() keeps the elements of the upper triangle that are not exactly
\* zero: their (row, col) positions, 1-based, row <= col
storedElements(icov) ==
    { p \in (1..Len(icov)) \X (1..Len(icov)) :
        p[1] <= p[2] /\ icov[p[1]][p[2]] # RZero }
\* element access on a compressed store: a dropped entry reads as 0
readCompressed(icov, kept, row, col) ==
    LET i == IF row <= col THEN row ELSE col
        j == IF row <= col THEN col ELSE row
    IN  IF << i, j >> \in kept THEN icov[i][j] ELSE RZero
\* compress(): what every element reads as once the zeros are dropped
compressStore(store) ==
    LET n == Len(store.icov)
        kept == storedElements(store.icov)
    IN  [store EXCEPT
            !.compressed = TRUE,
            !.icov = [i \in 1..n |-> [j \in 1..n |->
                         readCompressed(store.icov, kept, i, j)]]]
\* an operation that needs the dense form re-expands the storage
uncompressStore(store) == [store EXCEPT !.compressed = FALSE]

(***************************************************************************)
(* LyaData.                                                                *)
(***************************************************************************)
\* LyaData::LyaData: the object as constructed
NewLyaData ==
    [dataFinalized |-> FALSE, covarianceFinalized |-> FALSE, compressed |-> FALSE,
     data |-> << >>, icovData |-> << >>, index |-> << >>, r3d |-> << >>, mu |-> << >>,
     covariance |-> NullStore, covarianceTilde |-> NullStore,
     binnedData |-> << >>]

getNData(self) == Len(self.data)

\* LyaData::load of a file pair whose params file declares the bins `bins`
\* (triples of axis bin indices, in file order) with the values `values`,
\* and whose covariance file gives the matrix `icov`, into a new object:
\* addData per params line, finalizeData, addCovariance per covariance line,
\* finalizeCovariance.
LyaData_load(self, file) ==
    LET n == Len(file.bins)
        idx == [k \in 1..n |-> Index(file.bins[k][1], file.bins[k][2], file.bins[k][3])]
        store == [isNull |-> FALSE, icov |-> IntMat(file.icov), compressed |-> FALSE]
    IN  [self EXCEPT
            !.data = IntVec(file.values),
            !.index = idx,
            !.binnedData = idx,
            !.r3d = [k \in 1..n |-> binRadius(idx[k])],
            !.mu = [k \in 1..n |-> binCosAngle(idx[k])],
            !.dataFinalized = TRUE,
            !.covariance = store,
            !.covarianceFinalized = TRUE,
            !.icovData = multiplyByInverseCovariance(store, IntVec(file.values))]


\* LyaData::compress, on an object whose _covariance is set
LyaData_compress(self) ==
    IF self.covariance.isNull
    THEN [obj |-> [self EXCEPT !.compressed = TRUE], outcome |-> "null"]
    ELSE [obj |-> [self EXCEPT !.compressed = TRUE,
                               !.covariance = compressStore(self.covariance)],
          outcome |-> "ok"]

\* LyaData::applyTheoryOffsets without the closing compress()
LyaData_applyTheoryOffsets_dense(self, model, offsets) ==
    LET shifted == [k \in 1..getNData(self) |-> RAdd(self.data[k], RInt(offsets[k]))]
    IN  IF ~model THEN [obj |-> self, outcome |-> "assert"]
        ELSE IF self.covariance.isNull
        THEN [obj |-> [self EXCEPT !.data = shifted], outcome |-> "null"]
        ELSE [obj |-> [self EXCEPT
                          !.data = shifted,
                          !.icovData = multiplyByInverseCovariance(self.covariance, shifted),
                          !.covariance = uncompressStore(self.covariance)],
              outcome |-> "ok"]

\* LyaData::applyTheoryOffsets leaving _icovData as it was
LyaData_applyTheoryOffsets_stale(self, model, offsets) ==
    LET shifted == [k \in 1..getNData(self) |-> RAdd(self.data[k], RInt(offsets[k]))]
    IN  IF ~model THEN [obj |-> self, outcome |-> "assert"]
        ELSE IF self.covariance.isNull
        THEN [obj |-> [self EXCEPT !.data = shifted], outcome |-> "null"]
        ELSE [obj |-> [self EXCEPT !.data = shifted], outcome |-> "ok"]

\* LyaData::applyTheoryOffsets; offsets[k] is
\* model->evaluate(r,mu,z,pnew) - model->evaluate(r,mu,z,pfit) of data k, and
\* `model` tells whether the model pointer is set
LyaData_applyTheoryOffsets(self, model, offsets) ==
    LET shifted == [k \in 1..getNData(self) |-> RAdd(self.data[k], RInt(offsets[k]))]
        compressed == self.covariance.compressed
        dense == uncompressStore(self.covariance)
    IN  IF ~model THEN [obj |-> self, outcome |-> "assert"]
        ELSE IF self.covariance.isNull
        THEN [obj |-> [self EXCEPT !.data = shifted], outcome |-> "null"]
        ELSE [obj |-> [self EXCEPT
                          !.data = shifted,
                          !.icovData = multiplyByInverseCovariance(self.covariance, shifted),
                          !.covariance = IF compressed THEN compressStore(dense)
                                         ELSE dense],
              outcome |-> "ok"]

\* a reset that leaves _covarianceTilde alone
LyaData_reset_keepTilde(self) ==
    [self EXCEPT !.dataFinalized = FALSE, !.covarianceFinalized = FALSE,
                 !.data = << >>, !.compressed = FALSE,
                 !.covariance = NullStore]

\* LyaData::reset
LyaData_reset(self) ==
    [self EXCEPT !.dataFinalized = FALSE, !.covarianceFinalized = FALSE,
                 !.data = << >>, !.compressed = FALSE,
                 !.covariance = NullStore, !.covarianceTilde = NullStore]

\* likely::BinnedData::operator+= accepts only a dataset with the same bins
\* with data, in the same order
isCongruent(self, other) == self = other

\* the assert without the two finalized flags
add_precondition_compressed(self) == ~self.compressed

\* LyaData::add, line 399: assert(!_dataFinalized && !_covarianceFinalized && !_compressed)
add_precondition(self) ==
    ~self.dataFinalized /\ ~self.covarianceFinalized /\ ~self.compressed

\* an allocation that keeps an _icovData that already has the plate's size
add_allocate_stale(self, other) ==
    LET nData == getNData(other)
    IN  [self EXCEPT !.data = ZeroVec(nData),
                     !.icovData = IF Len(self.icovData) = nData
                                  THEN self.icovData ELSE ZeroVec(nData),
                     !.index = other.index, !.r3d = other.r3d, !.mu = other.mu,
                     !.covariance = NewStore(nData),
                     !.covarianceTilde = NewStore(nData),
                     !.binnedData = other.binnedData]

\* LyaData::add, lines 403-421: the first data added allocates empty arrays
\* and copies the cached data of the plate
add_allocate(self, other) ==
    LET nData == getNData(other)
    IN  [self EXCEPT !.data = ZeroVec(nData), !.icovData = ZeroVec(nData),
                     !.index = other.index, !.r3d = other.r3d, !.mu = other.mu,
                     !.covariance = NewStore(nData),
                     !.covarianceTilde = NewStore(nData),
                     !.binnedData = other.binnedData]

\* the weights with nk2 not squared
add_weights_linear(repeat) == [nk |-> repeat, nk2 |-> repeat]

\* the weights with nk2 doubled instead of squared
add_weights_doubled(repeat) == [nk |-> repeat, nk2 |-> repeat + repeat]

\* LyaData::add, line 429: double nk(repeat), nk2(repeat*repeat)
add_weights(repeat) == [nk |-> repeat, nk2 |-> repeat * repeat]

\* LyaData::add.  outcome is "ok", "assert" (a failed assert), "throw" (an
\* exception of _binnedData += other._binnedData) or "null" (a call through
\* an empty shared_ptr).
LyaData_add(self, other, repeat) ==
    IF ~add_precondition(self)
    THEN [obj |-> self, outcome |-> "assert"]
    ELSE IF ~(other.dataFinalized /\ other.covarianceFinalized)
    THEN [obj |-> self, outcome |-> "assert"]
    ELSE
    LET nData == getNData(other)
        first == (0 = Len(self.data))
        seeded == IF first THEN add_allocate(self, other) ELSE self
        summed == [seeded EXCEPT
                      !.icovData = VecAdd(seeded.icovData, VecScale(repeat, other.icovData))]
        w == add_weights(repeat)
    IN  IF ~first /\ nData # getNData(self)
        THEN [obj |-> self, outcome |-> "assert"]
        ELSE IF ~first /\ ~isCongruent(self.binnedData, other.binnedData)
        THEN [obj |-> self, outcome |-> "throw"]
        ELSE IF seeded.covariance.isNull \/ seeded.covarianceTilde.isNull
        THEN [obj |-> summed, outcome |-> "null"]
        ELSE [obj |-> [summed EXCEPT
                          !.covariance =
                              addInverse(seeded.covariance, other.covariance, w.nk2),
                          !.covarianceTilde =
                              addInverse(seeded.covarianceTilde, other.covariance, w.nk)],
              outcome |-> "ok"]

\* LyaData::finalize, line 512
finalize_precondition(self) ==
    ~self.dataFinalized /\ ~self.covarianceFinalized /\ ~self.compressed

\* the estimate with the accumulated weights applied instead of solved for
finalize_data_weighted(self) ==
    multiplyByInverseCovariance(self.covarianceTilde, self.icovData)

\* LyaData::finalize, lines 519-520: _data = _icovData;
\* _covarianceTilde->multiplyByCovariance(_data)
finalize_data(self) == multiplyByCovariance(self.covarianceTilde, self.icovData)

\* the covariance with the fixCovariance argument ignored
finalize_covariance_naive(self, fixCovariance) == self.covarianceTilde

\* LyaData::finalize, lines 523-571: the store _covariance points to after
\* the if(fixCovariance) ... else ...
finalize_covariance(self, fixCovariance) ==
    IF fixCovariance
    THEN replaceWithTripleProduct(self.covariance, self.covarianceTilde)
    ELSE self.covarianceTilde

\* LyaData::finalize
LyaData_finalize(self, fixCovariance) ==
    IF ~finalize_precondition(self)
    THEN [obj |-> self, outcome |-> "assert"]
    ELSE IF self.covarianceTilde.isNull
    THEN [obj |-> [self EXCEPT !.data = self.icovData], outcome |-> "null"]
    ELSE [obj |-> [self EXCEPT !.data = finalize_data(self),
                               !.covariance = finalize_covariance(self, fixCovariance),
                               !.covarianceTilde = NullStore,
                               !.dataFinalized = TRUE, !.covarianceFinalized = TRUE],
          outcome |-> "ok"]

\* LyaData accessors, k a 0-based offset
getRadius(self, k) == self.r3d[k + 1]
getCosAngle(self, k) == self.mu[k + 1]
getRedshift(self, k) == getBinCenter(3, self.index[k + 1] % NZ)
getData(self, k) == self.data[k + 1]
getVariance(self, k) == getCovariance(self.covariance, k, k)

\* the subsequence of the elements of seq that are in keep
\* (likely::BinnedData::prune keeps the relative order)
RECURSIVE pruneSeq(_, _)
pruneSeq(seq, keep) ==
    IF seq = << >> THEN << >>
    ELSE IF Head(seq) \in keep THEN << Head(seq) >> \o pruneSeq(Tail(seq), keep)
    ELSE pruneSeq(Tail(seq), keep)

\* the keep set LyaData::prune builds
LyaData_pruneKeep(self, rmin, rmax, llmin) ==
    { self.binnedData[offset + 1] : offset \in
        { o \in 0..(Len(self.binnedData) - 1) :
            /\ getRadius(self, o) >= rmin
            /\ getRadius(self, o) < rmax
            /\ getBinCenters(self.binnedData[o + 1])[1] >= llmin } }

\* LyaData::prune
LyaData_prune(self, rmin, rmax, llmin) ==
    [self EXCEPT !.binnedData =
        pruneSeq(self.binnedData, LyaData_pruneKeep(self, rmin, rmax, llmin))]


(***************************************************************************)
(* The plates of main(): each is a LyaData that was loaded from its file   *)
(* pair and compressed.  Every inverse covariance is positive definite.    *)
(***************************************************************************)
PlateFiles ==
    [ Z |-> [bins |-> << >>, values |-> << >>, icov |-> << >>],
      A |-> [bins |-> << <<0, 0, 0>>, <<0, 1, 0>> >>, values |-> <<1, 3>>,
             icov |-> << <<2, 1>>, <<1, 2>> >>],
      B |-> [bins |-> << <<0, 0, 0>>, <<0, 1, 0>> >>, values |-> <<2, -1>>,
             icov |-> << <<1, 0>>, <<0, 3>> >>],
      C |-> [bins |-> << <<0, 0, 0>>, <<1, 0, 0>> >>, values |-> <<1, 1>>,
             icov |-> << <<1, 0>>, <<0, 1>> >>],
      D |-> [bins |-> << <<1, 1, 0>>, <<0, 0, 0>>, <<0, 1, 0>> >>, values |-> <<1, 2, 3>>,
             icov |-> << <<1, 0, 0>>, <<0, 1, 0>>, <<0, 0, 1>> >>],
      E |-> [bins |-> << <<1, 1, 0>>, <<0, 0, 0>>, <<0, 1, 0>> >>, values |-> <<3, 6, -1>>,
             icov |-> << <<1, 0, 0>>, <<0, 1, 0>>, <<0, 0, 1>> >>] ]

PlateNames == DOMAIN PlateFiles

\* main(): plate->load(filename,...); plate->compress(); plateData.push_back(plate)
plateData ==
    [name \in PlateNames |->
        LyaData_compress(LyaData_load(NewLyaData, PlateFiles[name])).obj]

\* the cuts main() may pass to prune
RMinCuts == {0, 20}
RMaxCuts == {40, 200}
LLMinCuts == {1, 2}

(***************************************************************************)
(* QuasarCorrelationData: the populated bins `index` in offset order with  *)
(* their `values`, the covariance by offset, the final cuts, and the       *)
(* lookup tables that finalize() fills.  A covariance element is the value *)
(* read from the file and the fixes fixCovariance() added to it, each fix  *)
(* recorded by the two log-lambda values it was computed from.             *)
(***************************************************************************)
NullQuasar ==
    [isNull |-> TRUE, llmin |-> 0, fixCov |-> FALSE, rmin |-> 0, rmax |-> 0,
     index |-> << >>, values |-> << >>, covariance |-> << >>,
     finalized |-> FALSE, rLookup |-> << >>, muLookup |-> << >>, zLookup |-> << >>]

\* QuasarCorrelationData::QuasarCorrelationData and _initialize, with the
\* final cuts of AbsCorrelationData
NewQuasarCorrelationData(llmin, fixCov, rmin, rmax) ==
    [NullQuasar EXCEPT !.isNull = FALSE, !.llmin = llmin, !.fixCov = fixCov,
                       !.rmin = rmin, !.rmax = rmax]

\* likely::BinnedData::getNBinsWithData
getNBinsWithData(self) == Len(self.index)

\* likely::BinnedData::getOffsetForIndex, 0-based
getOffsetForIndex(self, index) ==
    (CHOOSE k \in 1..Len(self.index) : self.index[k] = index) - 1

\* likely::AbsBinning::getBinWidth of the uniform binning
getBinWidth(axis, bin) == 1

\* QuasarCorrelationData::transform; the same formula as LyaData::transform
QuasarCorrelationData_transform(ll, sep, dsep, z) ==
    [r |-> transform(ll, sep, z).r3d, mu |-> transform(ll, sep, z).mu]

\* QuasarCorrelationData::_setIndex: (r,mu,z) of the centre of a bin
setIndex(index) ==
    LET c == getBinCenters(index)
        t == QuasarCorrelationData_transform(
                 c[1], c[2], getBinWidth(2, getBinIndices(index)[2]), c[3])
    IN  [r |-> t.r, mu |-> t.mu, z |-> c[3]]

\* QuasarCorrelationData::getRadius, getCosAngle, getRedshift of a global index
QuasarCorrelationData_getRadius(self, index) ==
    IF self.finalized THEN self.rLookup[getOffsetForIndex(self, index) + 1]
    ELSE setIndex(index).r
QuasarCorrelationData_getCosAngle(self, index) ==
    IF self.finalized THEN self.muLookup[getOffsetForIndex(self, index) + 1]
    ELSE setIndex(index).mu
QuasarCorrelationData_getRedshift(self, index) ==
    IF self.finalized THEN self.zLookup[getOffsetForIndex(self, index) + 1]
    ELSE setIndex(index).z

\* loadCosmolib: a new dataset with setData for each line of the params file
\* and setCovariance (or setInverseCovariance) for each line of the
\* covariance file
loadCosmolib(file, llmin, fixCov, rmin, rmax) ==
    LET n == Len(file.bins)
    IN  [NewQuasarCorrelationData(llmin, fixCov, rmin, rmax) EXCEPT
            !.index = [k \in 1..n |->
                          Index(file.bins[k][1], file.bins[k][2], file.bins[k][3])],
            !.values = file.values,
            !.covariance = [a \in 1..n |-> [b \in 1..n |->
                               [value |-> file.icov[a][b], fixes |-> << >>]]]]

\* every pair of bins gets a fix
sameSepZ_all(i1, i2) == TRUE

\* fixCovariance: bins i1, i2 get a fix when they share the sep and z indices
sameSepZ(i1, i2) ==
    /\ getBinIndices(i1)[2] = getBinIndices(i2)[2]
    /\ getBinIndices(i1)[3] = getBinIndices(i2)[3]

\* fixCovariance: dll[i] when `size` values have been pushed; a read at or
\* beyond size is outside the vector and its value is not defined
dllRead(self, i, size) ==
    IF i < size
    THEN [filled |-> TRUE, value |-> getBinCenter(1, getBinIndices(self.index[i + 1])[1])]
    ELSE [filled |-> FALSE]

\* fixCovariance: some read of dll is outside the vector
dllOutside(self) ==
    \E p1 \in 1..Len(self.index) : \E p2 \in 1..p1 :
        /\ sameSepZ(self.index[p1], self.index[p2])
        /\ self.index[p1] >= p1 \/ self.index[p2] >= p1

\* likely::BinnedData::isCovarianceModifiable: the covariance may be written
\* while the dataset is being loaded, not once it is finalized
isCovarianceModifiable(self) == ~self.finalized

\* QuasarCorrelationData::fixCovariance.  `ub` is what the reads outside a
\* vector do: "garbage" (some value is read) or "crash".  getData(*begin())
\* of a dataset without bins reads past the end of the index vector, and
\* getData of what was read finds no data.  A crashed process leaves no
\* object behind; it is recorded as it was before the call.
QuasarCorrelationData_fixCovariance(self, ub) ==
    LET n == Len(self.index)
        hi(a, b) == IF a >= b THEN a ELSE b
        lo(a, b) == IF a >= b THEN b ELSE a
        fix(a, b) == << dllRead(self, self.index[hi(a, b)], hi(a, b)),
                        dllRead(self, self.index[lo(a, b)], hi(a, b)) >>
    IN  IF ~isCovarianceModifiable(self) THEN [obj |-> self, outcome |-> "throw"]
        ELSE IF n = 0
        THEN [obj |-> self, outcome |-> IF ub = "crash" THEN "crash" ELSE "throw"]
        ELSE IF dllOutside(self) /\ ub = "crash"
        THEN [obj |-> self, outcome |-> "crash"]
        ELSE [obj |-> [self EXCEPT !.covariance =
                          [a \in 1..n |-> [b \in 1..n |->
                              IF sameSepZ(self.index[a], self.index[b])
                              THEN [self.covariance[a][b] EXCEPT
                                       !.fixes = Append(@, fix(a, b))]
                              ELSE self.covariance[a][b]]]],
              outcome |-> "ok"]

\* no bin is cut
applyFinalCuts_all(self) == {self.index[k] : k \in 1..Len(self.index)}

\* AbsCorrelationData::_applyFinalCuts: the bins inside the radius cuts
applyFinalCuts(self) ==
    {self.index[k] : k \in {o \in 1..Len(self.index) :
        /\ QuasarCorrelationData_getRadius(self, self.index[o]) >= self.rmin
        /\ QuasarCorrelationData_getRadius(self, self.index[o]) < self.rmax}}

\* the bins finalize caches before the test of ll against _llmin
finalize_cached_all(self, keep) ==
    SelectSeq(self.index, LAMBDA index : index \in keep)

\* QuasarCorrelationData::finalize, lines 108-120: the keep set when the
\* loop has erased the bins with ll < _llmin
finalize_keep(self, keep) ==
    {index \in keep : ~(getBinCenters(index)[1] < self.llmin)}

\* QuasarCorrelationData::finalize, lines 108-124: the bins whose (r,mu,z)
\* are cached, in the order of the loop: those in keep with ll >= _llmin
finalize_cached(self, keep) ==
    SelectSeq(self.index,
              LAMBDA index : index \in keep /\ ~(getBinCenters(index)[1] < self.llmin))

\* likely::BinnedData::prune: the bins in keep, in their order, with their
\* values and covariance
QuasarCorrelationData_prune(self, keep) ==
    LET offsets == SelectSeq([k \in 1..Len(self.index) |-> k],
                             LAMBDA k : self.index[k] \in keep)
        m == Len(offsets)
    IN  [self EXCEPT
            !.index = [k \in 1..m |-> self.index[offsets[k]]],
            !.values = [k \in 1..m |-> self.values[offsets[k]]],
            !.covariance = [a \in 1..m |-> [b \in 1..m |->
                               self.covariance[offsets[a]][offsets[b]]]]]

\* QuasarCorrelationData::finalize; AbsCorrelationData::finalize() at its
\* end fails on a dataset that is finalized already
QuasarCorrelationData_finalize(self, ub) ==
    LET fixed == IF self.fixCov THEN QuasarCorrelationData_fixCovariance(self, ub)
                 ELSE [obj |-> self, outcome |-> "ok"]
        this == fixed.obj
        keep == applyFinalCuts(this)
        cached == finalize_cached(this, keep)
        n == Len(cached)
        tabulated ==
            [this EXCEPT
                !.rLookup = @ \o [k \in 1..n |->
                                     QuasarCorrelationData_getRadius(this, cached[k])],
                !.muLookup = @ \o [k \in 1..n |->
                                      QuasarCorrelationData_getCosAngle(this, cached[k])],
                !.zLookup = @ \o [k \in 1..n |->
                                     QuasarCorrelationData_getRedshift(this, cached[k])]]
        pruned == QuasarCorrelationData_prune(tabulated, finalize_keep(this, keep))
    IN  IF fixed.outcome # "ok" THEN fixed
        ELSE IF self.finalized THEN [obj |-> pruned, outcome |-> "throw"]
        ELSE [obj |-> [pruned EXCEPT !.finalized = TRUE], outcome |-> "ok"]

\* what a read outside a vector may do
UBOutcomes == {"garbage", "crash"}

(***************************************************************************)
(* The text loaders, line by line: LyaData::load and loadCosmolib of       *)
(* baofit.cc, boss::loadCosmolib and boss::loadDR9LRG.  A line of a file   *)
(* is what the loader's pattern makes of it: `good` (the tokens of the     *)
(* schema), `fewer` or `more` tokens than the schema, or `nonnumeric` (the *)
(* right number of tokens, the value token not a number).  An element of   *)
(* the covariance store is mant * 10^exp, so that the replacement values   *)
(* 1e40 and 1e-30 are kept exactly.                                        *)
(***************************************************************************)
Sci(mant, exp) == [mant |-> mant, exp |-> exp]

Message(kind, file, line) == [kind |-> kind, file |-> file, line |-> line]

NoMessage == Message("none", "none", 0)

NoReader ==
    [name |-> "none", pc |-> "idle", icov |-> FALSE, checkPosDef |-> FALSE,
     fast |-> FALSE, lines |-> 0, index |-> << >>, values |-> << >>,
     elements |-> << >>, hasCov |-> << >>, compressed |-> FALSE,
     cerr |-> FALSE, outcome |-> "running", message |-> NoMessage]

\* the run ends: an exception that reaches the caller ("throw"), a failed
\* assert ("assert"), a crash ("crash") or the return of the dataset
Done(self, outcome, message) ==
    [self EXCEPT !.pc = "done", !.outcome = outcome, !.message = message]

hasData(self, index) == \E k \in 1..Len(self.index) : self.index[k] = index

\* setData(index, value): fails when the bin already has a value
BinnedData_setData(self, index, value) ==
    IF hasData(self, index)
    THEN [ok |-> FALSE, obj |-> self]
    ELSE [ok |-> TRUE,
          obj |-> [self EXCEPT !.index = Append(@, index),
                               !.values = Append(@, value)]]

\* the bins of the DR9LRG prototype
DR9LRG_nbins == 50

\* getIndex of the (nbins, 1, 1) grid of the prototype: -1 stands for the
\* exception it throws for a radius outside the binning
DR9LRG_getIndex(bin) ==
    IF bin[1] >= 0 /\ bin[1] < DR9LRG_nbins /\ bin[2] = 0 /\ bin[3] = 0
    THEN bin[1] ELSE -1

\* the prototype with every bin pre-filled with zero
createDR9LRGPrototype ==
    [index |-> [k \in 1..DR9LRG_nbins |-> k - 1],
     values |-> [k \in 1..DR9LRG_nbins |-> 0]]

\* prototype->clone(false): the copy holds the data of the prototype
BinnedData_clone(prototype, binningOnly) ==
    IF binningOnly THEN [index |-> << >>, values |-> << >>] ELSE prototype

\* BinnedData::getIndex for the bins of the three axes: the axes are folded
\* in their order, the last one varying fastest
BinnedData_getIndex(bin) ==
    LET nBins == << NLL, NSEP, NZ >>
        fold[axis \in 0..3] ==
            IF axis = 0 THEN 0 ELSE fold[axis - 1] * nBins[axis] + bin[axis]
    IN  fold[3]

\* LyaData::addData(value, logLambda, separation, redshift)
addData(self, value, bin) ==
    LET index == Index(bin[1], bin[2], bin[3])
    IN  IF hasData(self, index) \/ index # BinnedData_getIndex(bin)
        THEN Done(self, "assert", NoMessage)
        ELSE [self EXCEPT !.index = Append(@, index),
                          !.values = Append(@, value)]

\* boost::regex_match of a line against the pattern of the loader: in fast
\* mode every token is (\S+)
regex_match(fast, line) ==
    line.kind = "good" \/ (line.kind = "nonnumeric" /\ fast)

\* qi::phrase_parse of a line: true as soon as the tokens of the grammar
\* have been parsed, whatever follows them
phrase_parse(line) == line.kind \in {"good", "more"}

\* getDouble: a token that is not a number leaves the zero it was given
getDouble(line) == IF line.kind = "nonnumeric" THEN 0 ELSE line.value

\* LyaData::load, one turn of the loop over the parameter file
LyaData_load_params(self, line) ==
    IF ~regex_match(self.fast, line)
    THEN Done(self, "throw", Message("params", "none", self.lines + 1))
    ELSE addData([self EXCEPT !.lines = @ + 1], getDouble(line), line.bin)

\* loadCosmolib of baofit.cc, one turn of the loop over the parameter file;
\* the first token of the line is the global index of the bin
loadCosmolib_params(self, line) ==
    LET set == BinnedData_setData([self EXCEPT !.lines = @ + 1],
                   Index(line.bin[1], line.bin[2], line.bin[3]),
                   getDouble(line))
    IN  IF ~regex_match(self.fast, line)
        THEN Done(self, "throw", Message("params", "none", self.lines + 1))
        ELSE IF set.ok THEN set.obj
        ELSE Done(set.obj, "throw", Message("setData", "none", 0))

\* boss::loadCosmolib, one turn of the loop over the parameter file
boss_loadCosmolib_params(self, line) ==
    LET set == BinnedData_setData([self EXCEPT !.lines = @ + 1],
                   Index(line.bin[1], line.bin[2], line.bin[3]), line.value)
    IN  IF ~phrase_parse(line)
        THEN Done(self, "throw", Message("params", "params", self.lines + 1))
        ELSE IF set.ok THEN set.obj
        ELSE Done(set.obj, "throw", Message("setData", "none", 0))

\* boss::loadDR9LRG, one turn of the loop over the data file: an exception
\* of getIndex or setData ends the loop, and the dataset is returned
loadDR9LRG_params(self, line) ==
    LET monoIndex == DR9LRG_getIndex(line.bin)
        set == BinnedData_setData([self EXCEPT !.lines = @ + 1], monoIndex,
                                  line.value)
    IN  IF ~phrase_parse(line)
        THEN Done(self, "throw", Message("params", "params", self.lines + 1))
        ELSE IF monoIndex >= 0 /\ set.ok THEN set.obj
        ELSE Done(self, "returned", NoMessage)

packedIndex_unordered(i, j) == i + (j * (j + 1)) \div 2

\* the slot of the packed store that element (i,j) lives in:
\* row+(col*(col+1))/2 with row <= col
packedIndex(i, j) ==
    LET row == IF i <= j THEN i ELSE j
        col == IF i <= j THEN j ELSE i
    IN  row + (col * (col + 1)) \div 2

\* LyaData::getSymmetric(matrix, i, j)
getSymmetric(matrix, i, j) == matrix[packedIndex(i, j) + 1]

\* BinnedData::set(Inverse)Covariance(index1, index2, value): both bins must
\* have data; the element is kept at the offsets of the two bins
BinnedData_setCovariance(self, index1, index2, value) ==
    IF ~hasData(self, index1) \/ ~hasData(self, index2)
    THEN [ok |-> FALSE, obj |-> self]
    ELSE [ok |-> TRUE,
          obj |-> [self EXCEPT !.elements[
                       packedIndex(getOffsetForIndex(self, index1),
                                   getOffsetForIndex(self, index2)) + 1] =
                       Sci(value, 0)]]

\* BinnedData::get(Inverse)Covariance(index1, index2) of two bins with data
BinnedData_getCovariance(self, index1, index2) ==
    getSymmetric(self.elements, getOffsetForIndex(self, index1),
                 getOffsetForIndex(self, index2))

\* if(icov) value = -value
signed(icov, value) == IF icov THEN 0 - value ELSE value

\* LyaData::addCovariance(i, j, value, cov_is_icov)
addCovariance(self, i, j, value) ==
    LET row == IF i <= j THEN i ELSE j
        col == IF i <= j THEN j ELSE i
        index == packedIndex(i, j)
    IN  IF ~(row >= 0 /\ col >= 0 /\ col < Len(self.index))
        THEN Done(self, "assert", NoMessage)
        ELSE IF self.hasCov[index + 1] THEN Done(self, "assert", NoMessage)
        ELSE [self EXCEPT !.elements[index + 1] = Sci(value, 0),
                          !.hasCov[index + 1] = TRUE]

\* LyaData::load, one turn of the loop over the covariance file
LyaData_load_cov(self, line) ==
    IF ~regex_match(self.fast, line)
    THEN Done(self, "throw", Message("cov", "none", self.lines + 1))
    ELSE addCovariance([self EXCEPT !.lines = @ + 1], line.offset1,
                       line.offset2, signed(self.icov, getDouble(line)))

\* what *(binnedData->begin()+offset) may give for an offset that is not
\* below the number of bins with data
UBReads == {"crash", "nodata", "bin"}

\* *(binnedData->begin()+offset): the global index of the bin declared
\* offset-th; past the end of the vector the read is undefined: the process
\* crashes (-2), or the value read is the index of no bin with data (-1) or
\* of a bin with data
derefBegin(self, offset, ub) ==
    IF offset < Len(self.index) THEN self.index[offset + 1]
    ELSE IF ub = "crash" THEN -2
    ELSE IF ub = "nodata" \/ Len(self.index) = 0 THEN -1
    ELSE self.index[1]

\* the store of one line of a covariance file by the two loadCosmolib
storeCosmolib(self, line, value, ub) ==
    LET index1 == derefBegin(self, line.offset1, ub)
        index2 == derefBegin(self, line.offset2, ub)
        set == BinnedData_setCovariance(self, index1, index2, value)
    IN  IF index1 = -2 \/ index2 = -2 THEN Done(self, "crash", NoMessage)
        ELSE IF set.ok THEN set.obj
        ELSE Done(self, "throw", Message("setCovariance", "none", 0))

\* loadCosmolib of baofit.cc, one turn of the loop over the covariance file
loadCosmolib_cov(self, line, ub) ==
    IF ~regex_match(self.fast, line)
    THEN Done(self, "throw", Message("cov", "none", self.lines + 1))
    ELSE storeCosmolib([self EXCEPT !.lines = @ + 1], line,
                       signed(self.icov, getDouble(line)), ub)

\* boss::loadCosmolib, one turn of the loop over the covariance file; the
\* message of a line that does not parse gives paramsName
boss_loadCosmolib_cov(self, line, ub) ==
    IF ~phrase_parse(line)
    THEN Done(self, "throw", Message("cov", "params", self.lines + 1))
    ELSE storeCosmolib([self EXCEPT !.lines = @ + 1], line,
                       signed(self.icov, line.value), ub)

\* boss::loadFrench, one turn of the loop over the data file
loadFrench_params(self, line) ==
    LET monoIndex == DR9LRG_getIndex(line.bin)
        set == BinnedData_setData([self EXCEPT !.lines = @ + 1], monoIndex,
                                  line.value)
    IN  IF ~phrase_parse(line)
        THEN Done(self, "throw", Message("params", "params", self.lines + 1))
        ELSE IF monoIndex < 0
        THEN Done(self, "throw", Message("getIndex", "none", 0))
        ELSE IF set.ok THEN set.obj
        ELSE Done(set.obj, "throw", Message("setData", "none", 0))

\* boss::loadFrench, one turn of the loop over the covariance file: the two
\* integers of a line are used as global indices
loadFrench_cov(self, line) ==
    LET counted == [self EXCEPT !.lines = @ + 1]
        set == BinnedData_setCovariance(counted, line.offset1, line.offset2,
                                        line.value)
    IN  IF ~phrase_parse(line)
        THEN Done(self, "throw", Message("cov", "cov", self.lines + 1))
        ELSE IF ~(line.offset1 <= line.offset2 /\ line.offset2 < 50)
        THEN counted
        ELSE IF set.ok THEN set.obj
        ELSE Done(counted, "throw", Message("setCovariance", "none", 0))

\* 1e40 on the scale of the values of the model's files
Huge == 100

\* the elements of a store as integers, up to a common positive factor
scaled(icov, element) ==
    IF icov
    THEN IF element.exp = -30 THEN element.mant ELSE element.mant * Huge
    ELSE IF element.exp = 40 THEN element.mant * Huge ELSE element.mant

\* whether the Cholesky factorization of the store succeeds: every leading
\* principal minor is positive
isPositiveDefinite(self) ==
    LET n == Len(self.index)
        m == [i \in 1..n |-> [j \in 1..n |->
                 scaled(self.icov, getSymmetric(self.elements, i - 1, j - 1))]]
    IN  \A k \in 1..n :
           RLess(RZero, Det(IntMat([i \in 1..k |-> [j \in 1..k |-> m[i][j]]])))

fixDiagonal_keep(self) == self

\* the loop that replaces a zero on the diagonal by 1e-30 (inverse
\* covariance) or 1e40 (covariance)
fixDiagonal(self) ==
    [self EXCEPT !.elements =
        [s \in 1..Len(@) |->
            IF /\ \E k \in 0..(Len(self.index) - 1) : s = packedIndex(k, k) + 1
               /\ @[s].mant = 0
            THEN Sci(1, IF self.icov THEN -30 ELSE 40)
            ELSE @[s]]]

\* LyaData::finalizeCovariance(cov_is_icov), the last call of LyaData::load:
\* with a covariance file, multiplyByInverseCovariance inverts the store
LyaData_finalizeCovariance(self) ==
    LET fixed == fixDiagonal(self)
    IN  IF ~self.icov /\ ~isPositiveDefinite(fixed)
        THEN Done(fixed, "throw", Message("posdef", "none", 0))
        ELSE Done(fixed, "returned", NoMessage)

\* loadCosmolib of baofit.cc after the covariance file
loadCosmolib_finish(self) == Done(fixDiagonal(self), "returned", NoMessage)

\* boss::loadCosmolib after the covariance file: the exception of the
\* inversion that getCovariance(0,0) triggers is caught and reported on
\* std::cerr, and the dataset is compressed and returned
boss_loadCosmolib_finish(self) ==
    LET fixed == fixDiagonal(self)
        caught == /\ self.checkPosDef
                  /\ \/ ~hasData(fixed, 0)
                     \/ self.icov /\ ~isPositiveDefinite(fixed)
    IN  Done([fixed EXCEPT !.cerr = caught, !.compressed = TRUE],
             "returned", NoMessage)

\* boss::loadFrench after the covariance file
loadFrench_finish(self) ==
    LET caught == /\ self.checkPosDef
                  /\ (~hasData(self, 0) \/ ~isPositiveDefinite(self))
    IN  Done([self EXCEPT !.cerr = caught], "returned", NoMessage)

\* one turn of the loop over the parameter file
readParamsLine(self, line) ==
    CASE self.name = "LyaData::load" -> LyaData_load_params(self, line)
      [] self.name = "loadCosmolib" -> loadCosmolib_params(self, line)
      [] self.name = "boss::loadCosmolib" -> boss_loadCosmolib_params(self, line)
      [] self.name = "boss::loadFrench" -> loadFrench_params(self, line)
      [] OTHER -> loadDR9LRG_params(self, line)

\* one turn of the loop over the covariance file
readCovLine(self, line, ub) ==
    CASE self.name = "LyaData::load" -> LyaData_load_cov(self, line)
      [] self.name = "loadCosmolib" -> loadCosmolib_cov(self, line, ub)
      [] self.name = "boss::loadCosmolib" -> boss_loadCosmolib_cov(self, line, ub)
      [] OTHER -> loadFrench_cov(self, line)

\* the covariance file is read to its end
finishLoad(self) ==
    CASE self.name = "LyaData::load" -> LyaData_finalizeCovariance(self)
      [] self.name = "loadCosmolib" -> loadCosmolib_finish(self)
      [] self.name = "boss::loadCosmolib" -> boss_loadCosmolib_finish(self)
      [] OTHER -> loadFrench_finish(self)

\* the loader is called with the arguments it has: the dataset it fills,
\* and the parameter file opened
startLoad(name, icov, checkPosDef, fast, opens) ==
    LET proto == BinnedData_clone(createDR9LRGPrototype,
                                  name # "boss::loadDR9LRG")
        self == [NoReader EXCEPT
                    !.name = name,
                    !.icov = icov /\ name \in {"LyaData::load", "loadCosmolib",
                                               "boss::loadCosmolib"},
                    !.checkPosDef = checkPosDef /\
                        name \in {"boss::loadCosmolib", "boss::loadFrench"},
                    !.fast = fast /\ name \in {"LyaData::load", "loadCosmolib"},
                    !.pc = "params", !.index = proto.index,
                    !.values = proto.values]
    IN  IF opens THEN self
        ELSE Done(self, "throw", Message("open", "params", 0))

\* LyaData::finalizeData(): the covariance store for the bins that have
\* data, no element of it written
finalizeData(self) ==
    LET nData == Len(self.index)
        nCov == (nData * (nData + 1)) \div 2
    IN  [self EXCEPT !.pc = "cov",
                     !.elements = [k \in 1..nCov |-> Sci(0, 0)],
                     !.hasCov = [k \in 1..nCov |-> FALSE]]

\* the parameter file is read to its end: the covariance store is allocated
\* for the bins that have data and the covariance file opened
endParams(self, opens) ==
    LET next == [finalizeData(self) EXCEPT !.lines = 0]
    IN  IF self.name = "boss::loadDR9LRG" THEN Done(self, "returned", NoMessage)
        ELSE IF opens THEN next
        ELSE Done(self, "throw", Message("open", "cov", 0))

(***************************************************************************)
(* twoStepSampling: the bin centres of the log-lambda axis.  A sample      *)
(* point is coef * sqrt(rad) with coef and rad rational: exp(ratio*(k-0.5))*)
(* with ratio = log(q) is q^(k-1) * sqrt(q).                               *)
(***************************************************************************)
RECURSIVE RPow(_, _)
RPow(x, n) == IF n = 0 THEN RInt(1) ELSE RMul(x, RPow(x, n - 1))

SamplePoint(coef, rad) == [coef |-> coef, rad |-> rad]
\* the square of a sample point, which orders the points (none is negative)
squared(point) == RMul(RMul(point.coef, point.coef), point.rad)

\* std::floor of a rational
floor(x) == x[1] \div x[2]

\* twoStepSampling past its check of the arguments: samplePoints as returned
samplePoints(nBins, breakpoint, dlog, dlin) ==
    LET nUniform == floor(RDiv(breakpoint, dlin))
        half == Rat(1, 2)
        q == RDiv(RAdd(breakpoint, dlog), breakpoint)
        uniform == [k \in 1..nUniform |->
                       SamplePoint(RMul(RSub(RInt(k), half), dlin), RInt(1))]
        nLog == IF nBins - nUniform - 1 > 0 THEN nBins - nUniform - 1 ELSE 0
        logarithmic == [k \in 1..nLog |->
                           SamplePoint(RMul(breakpoint, RPow(q, k - 1)), q)]
    IN  << SamplePoint(RZero, RInt(1)) >> \o uniform \o logarithmic

validSampling(breakpoint, dlog, dlin) ==
    RLess(RZero, breakpoint) /\ RLess(RZero, dlog) /\ RLess(RZero, dlin)

\* boss::twoStepSampling
boss_twoStepSampling(nBins, breakpoint, dlog, dlin) ==
    IF ~validSampling(breakpoint, dlog, dlin)
    THEN [outcome |-> "throw", points |-> << >>]
    ELSE [outcome |-> "ok", points |-> samplePoints(nBins, breakpoint, dlog, dlin)]

\* twoStepSampling of baofit.cc
twoStepSampling(nBins, breakpoint, dlog, dlin) ==
    IF ~validSampling(breakpoint, dlog, dlin)
    THEN [outcome |-> "assert", points |-> << >>]
    ELSE [outcome |-> "ok", points |-> samplePoints(nBins, breakpoint, dlog, dlin)]

NoSampling ==
    [called |-> FALSE, boss |-> FALSE, nBins |-> 0, breakpoint |-> RZero,
     dlog |-> RZero, dlin |-> RZero, outcome |-> "ok", points |-> << >>]

(***************************************************************************)
(* The transform of a bin centre to co-moving coordinates, computed        *)
(* exactly.  ll is given by exp(ll/2), which the source computes first;    *)
(* a radius is given by its square and a cosine by its numerator and the   *)
(* square of its denominator.  (The datasets above carry the tabulated     *)
(* radii of `transform`.)                                                  *)
(***************************************************************************)
\* cosmo::AbsHomogeneousUniverse::getLineOfSightComovingDistance, in Gpc/h:
\* zero at z = 0 and increasing, linear in z or flattening with z
getLineOfSightComovingDistance(cosmology, z) ==
    IF cosmology = "linear" THEN RMul(RInt(3), z)
    ELSE RDiv(RMul(RInt(6), z), RAdd(RInt(1), z))

\* cosmo::AbsHomogeneousUniverse::getTransverseComovingScale of a flat universe
getTransverseComovingScale(cosmology, z) ==
    getLineOfSightComovingDistance(cosmology, z)

\* _arcminToRad = 4*std::atan(1)/(60.*180.), to four digits
arcminToRad == Rat(1, 3438)

\* z1 and z2 of the transform
lineOfSightRedshifts(expHalfLl, z) ==
    LET ratio == expHalfLl
        zp1 == RAdd(z, RInt(1))
    IN  [z1 |-> RSub(RDiv(zp1, ratio), RInt(1)), z2 |-> RSub(RMul(zp1, ratio), RInt(1))]

\* the transverse separation with the centre of the bin for its weighted mean
weightedSeparation_naive(sep, ds) == sep

\* double swgt = sep + (ds*ds/12)/sep
weightedSeparation(sep, ds) == RAdd(sep, RDiv(RDiv(RMul(ds, ds), RInt(12)), sep))

RAbs(x) == << Abs(x[1]), x[2] >>

\* r = std::sqrt(rsq); mu = std::abs(drLos)/r: a division by zero gives NaN
comoving(drLos, drPerp) ==
    LET rsq == RAdd(RMul(drLos, drLos), RMul(drPerp, drPerp))
    IN  [rsq |-> rsq,
         mu |-> [nan |-> rsq = RZero, num |-> RAbs(drLos), densq |-> rsq]]

\* LyaData::transform(ll, sep, z, ds, r3d, mu)
LyaData_transform(cosmology, expHalfLl, sep, z, ds) ==
    LET zs == lineOfSightRedshifts(expHalfLl, z)
        drLos == RSub(getLineOfSightComovingDistance(cosmology, zs.z2),
                      getLineOfSightComovingDistance(cosmology, zs.z1))
        swgt == weightedSeparation(sep, ds)
        drPerp == RMul(getTransverseComovingScale(cosmology, z), RMul(swgt, arcminToRad))
    IN  comoving(drLos, drPerp)

\* QuasarCorrelationData::transform(ll, sep, dsep, z, r, mu)
QuasarCorrelationData_transformExact(cosmology, expHalfLl, sep, dsep, z) ==
    LET zs == lineOfSightRedshifts(expHalfLl, z)
        drLos == RSub(getLineOfSightComovingDistance(cosmology, zs.z2),
                      getLineOfSightComovingDistance(cosmology, zs.z1))
        swgt == weightedSeparation(sep, dsep)
        drPerp == RMul(getTransverseComovingScale(cosmology, z), RMul(swgt, arcminToRad))
    IN  comoving(drLos, drPerp)

NoCentre ==
    [called |-> FALSE, cosmology |-> "none", expHalfLl |-> RZero, sep |-> RZero,
     dsep |-> RZero, z |-> RZero,
     lya |-> comoving(RZero, RZero), quasar |-> comoving(RZero, RZero)]

(***************************************************************************)
(* The bootstrap loop of main().                                           *)
(***************************************************************************)
\* LyaBaoLikelihood::LyaBaoLikelihood: _data(data); `dataset` names the
\* object the pointer passed in points to
LyaBaoLikelihood(dataset) == [data |-> dataset, ncalls |-> 0]

\* no LyaBaoLikelihood has been constructed
NoLikelihood ==
    [built |-> FALSE, rmin |-> 0, rmax |-> 0, ncalls |-> 0, outcome |-> "ok",
     reserved |-> 0, pred |-> << >>]

\* LyaBaoLikelihood::LyaBaoLikelihood: assert(data); assert(rmax > rmin)
LyaBaoLikelihood_new(dataset, rmin, rmax) ==
    [NoLikelihood EXCEPT !.built = TRUE, !.rmin = rmin, !.rmax = rmax,
                         !.outcome = IF dataset.isNull \/ ~(rmax > rmin)
                                     THEN "assert" ELSE "ok"]

\* LyaBaoLikelihood::operator(): pred.reserve(getNBinsWithData()), then for
\* each bin of the dataset in iteration order assert(r >= _rmin && r < _rmax)
\* and one prediction, evaluated at the bin's (r,mu,z), pushed onto pred;
\* then _ncalls++ and chiSquare(pred).  A failed assert ends the program at
\* the bin it fails on.
LyaBaoLikelihood_call(self, dataset) ==
    LET n == getNBinsWithData(dataset)
        r(k) == QuasarCorrelationData_getRadius(dataset, dataset.index[k])
        inside(k) == r(k) >= self.rmin /\ r(k) < self.rmax
        failing == {k \in 1..n : ~inside(k)}
        stop == IF failing = {} THEN n
                ELSE (CHOOSE k \in failing : \A j \in failing : k <= j) - 1
        pred == [k \in 1..stop |->
                    [r |-> r(k),
                     mu |-> QuasarCorrelationData_getCosAngle(dataset, dataset.index[k]),
                     z |-> QuasarCorrelationData_getRedshift(dataset, dataset.index[k])]]
    IN  [self EXCEPT !.reserved = n, !.pred = pred,
                     !.ncalls = IF failing = {} THEN @ + 1 ELSE @,
                     !.outcome = IF failing = {} THEN "ok" ELSE "assert"]

\* the locals of main() before the plates are loaded
NoBoot ==
    [pc |-> "load", plates |-> << >>, bootstrapTrials |-> 0, bootstrapSize |-> 0,
     naiveCovariance |-> FALSE, nll |-> LyaBaoLikelihood("none"),
     k |-> 0, p |-> 0, counter |-> << >>, index |-> 0, built |-> 0,
     nInvalid |-> 0, rows |-> << >>, accumulated |-> 0,
     fit |-> [trial |-> -1, dataset |-> "none", builtIn |-> -1]]

RECURSIVE addPlates(_, _)
\* main(): data->add(*plate) for each plate of the platelist, in order
addPlates(self, plates) ==
    IF plates = << >> THEN [obj |-> self, outcome |-> "ok"]
    ELSE LET before == addPlates(self, SubSeq(plates, 1, Len(plates) - 1))
         IN  IF before.outcome # "ok" THEN before
             ELSE LyaData_add(before.obj, plateData[plates[Len(plates)]], 1)

\* main(): int nuniq = nplates - std::count(counter.begin(),counter.end(),0)
nuniq(counter) == Cardinality({i \in 1..Len(counter) : counter[i] # 0})

\* the row and the accumulation whatever IsValid() says
saveFit_always(self, valid) ==
    [self EXCEPT
        !.rows = Append(@, [trial |-> self.k, nuniq |-> nuniq(self.counter)]),
        !.accumulated = @ + 1,
        !.nInvalid = IF valid THEN @ ELSE @ + 1]

\* main(): if(fmin.IsValid()) { the row of the trial is written and its
\* values are accumulated } else { nInvalid++; }
saveFit(self, valid) ==
    IF valid
    THEN [self EXCEPT
             !.rows = Append(@, [trial |-> self.k, nuniq |-> nuniq(self.counter)]),
             !.accumulated = @ + 1]
    ELSE [self EXCEPT !.nInvalid = @ + 1]

(***************************************************************************)
(* clone() of the binned dataset, and the writes into a clone.             *)
(***************************************************************************)
\* AbsCorrelationData::_cloneFinalCuts(other): other gets our final cuts
cloneFinalCuts(self, other) ==
    [other EXCEPT !.rmin = self.rmin, !.rmax = self.rmax]

\* the copy constructor: the members are copied one by one, so the data
\* are copied and the pointer to the covariance is: the copy and the
\* original share one covariance object until cloneCovariance()
QuasarCorrelationData_copy(self) ==
    [obj |-> self, shared |-> Len(self.covariance) > 0, outcome |-> "ok"]

\* QuasarCorrelationData::clone(binningOnly)
QuasarCorrelationData_clone(self, binningOnly) ==
    LET data == IF binningOnly
                THEN [obj |-> NewQuasarCorrelationData(self.llmin, self.fixCov,
                                                       0, 0),
                      shared |-> FALSE, outcome |-> "ok"]
                ELSE QuasarCorrelationData_copy(self)
    IN  [data EXCEPT !.obj = cloneFinalCuts(self, @)]

\* BinnedData::cloneCovariance(): our covariance becomes a copy of its own
cloneCovariance(clone) == [clone EXCEPT !.shared = FALSE]

\* the covariance of a dataset with element (i,j), and (j,i), set to value
withCovariance(self, i, j, value) ==
    [self EXCEPT !.covariance =
        [a \in 1..Len(@) |-> [b \in 1..Len(@) |->
            IF << a, b >> \in {<< i + 1, j + 1 >>, << j + 1, i + 1 >>}
            THEN [@[a][b] EXCEPT !.value = value]
            ELSE @[a][b]]]]

\* what a write through a covariance object that two datasets share may
\* do: it is made in the object, or it is refused
SharedWrites == {"write", "refuse"}

\* clone->setCovariance(index1, index2, value) for the bins at offsets i
\* and j of the clone, with the original the clone was made from
clone_setCovariance(original, clone, i, j, value, how) ==
    IF ~isCovarianceModifiable(clone.obj) \/ (clone.shared /\ how = "refuse")
    THEN [original |-> original, clone |-> [clone EXCEPT !.outcome = "throw"]]
    ELSE [original |-> IF clone.shared
                       THEN withCovariance(original, i, j, value)
                       ELSE original,
          clone |-> [clone EXCEPT !.obj = withCovariance(@, i, j, value)]]

\* clone->setData(index, value)
clone_setData(clone, index, value) ==
    LET set == BinnedData_setData(clone.obj, index, value)
    IN  IF set.ok THEN [clone EXCEPT !.obj = set.obj]
        ELSE [clone EXCEPT !.outcome = "throw"]

(***************************************************************************)
(* State: the combined dataset `data` of main(), the last operation called *)
(* on it (with the flag a finalize was given) and its outcome, the adds    *)
(* accepted since the dataset was last empty, and whether reset() was ever *)
(* called on it; the binned dataset `binnedData` of main() and the outcome *)
(* of the last operation on it; the call of a text loader in progress,     *)
(* `reader`; a clone of the binned dataset, `cloned`, with whether its     *)
(* covariance is the object the original points to; and the number of     *)
(* calls of applyTheoryOffsets on `data`; the last call of                 *)
(* twoStepSampling, `sampling`; the locals of main() in its bootstrap      *)
(* loop, `boot`; the last bin centre transformed to co-moving coordinates  *)
(* by the two datasets, `centre`.                                          *)
(***************************************************************************)
VARIABLES data, call, outcome, added, wasReset, binnedData, binnedOutcome,
          reader, cloned, nOffsets, sampling, boot, centre, nll

lyaVars == << data, call, outcome, added, wasReset >>
quasarVars == << binnedData, binnedOutcome >>
readVars == << reader >>
cloneVars == << cloned >>
mainVars == << sampling, boot, centre, nll >>
vars == << data, call, outcome, added, wasReset, binnedData, binnedOutcome,
          reader, cloned, nOffsets, sampling, boot, centre, nll >>

Called(op) == [op |-> op, fixCovariance |-> FALSE]

\* a failed assert, a call through an empty pointer or an exception ends
\* the run
aborted == outcome # "ok"

Init ==
    /\ data = NewLyaData
    /\ call = Called("new")
    /\ outcome = "ok"
    /\ added = << >>
    /\ wasReset = FALSE
    /\ binnedData = NullQuasar
    /\ binnedOutcome = "ok"
    /\ reader = NoReader
    /\ cloned = [obj |-> NullQuasar, shared |-> FALSE, outcome |-> "ok"]
    /\ nOffsets = 0
    /\ sampling = NoSampling
    /\ boot = NoBoot
    /\ centre = NoCentre
    /\ nll = NoLikelihood

\* data->load(dataName,...) on the newly constructed dataset
Load(name) ==
    /\ ~aborted
    /\ data = NewLyaData
    /\ data' = LyaData_load(data, PlateFiles[name])
    /\ call' = Called("load")
    /\ outcome' = "ok"
    /\ added' = << >>
    /\ wasReset' = wasReset
    /\ UNCHANGED << quasarVars, readVars, cloneVars, nOffsets, mainVars >>

\* the sum of the repeat counts of the adds accepted
RECURSIVE repeats(_)
repeats(adds) ==
    IF adds = << >> THEN 0
    ELSE repeats(SubSeq(adds, 1, Len(adds) - 1)) + adds[Len(adds)].repeat

\* data->add(*plate, repeat)
Add(name, repeat) ==
    LET res == LyaData_add(data, plateData[name], repeat)
    IN  /\ ~aborted
        /\ res.outcome = "ok" =>
              (Len(added) < MaxAdds /\ repeats(added) + repeat <= MaxSize)
        /\ data' = res.obj
        /\ call' = Called("add")
        /\ outcome' = res.outcome
        /\ added' = IF res.outcome = "ok"
                    THEN Append(added, [plate |-> name, repeat |-> repeat])
                    ELSE added
        /\ wasReset' = wasReset
        /\ UNCHANGED << quasarVars, readVars, cloneVars, nOffsets, mainVars >>

\* data->finalize(fixCovariance)
Finalize(fixCovariance) ==
    LET res == LyaData_finalize(data, fixCovariance)
    IN  /\ ~aborted
        /\ data' = res.obj
        /\ call' = [op |-> "finalize", fixCovariance |-> fixCovariance]
        /\ outcome' = res.outcome
        /\ added' = added
        /\ wasReset' = wasReset
        /\ UNCHANGED << quasarVars, readVars, cloneVars, nOffsets, mainVars >>

\* data->reset()
Reset ==
    /\ ~aborted
    /\ data' = LyaData_reset(data)
    /\ call' = Called("reset")
    /\ outcome' = "ok"
    /\ added' = << >>
    /\ wasReset' = TRUE
    /\ UNCHANGED << quasarVars, readVars, cloneVars, nOffsets, mainVars >>

\* data->compress()
Compress ==
    LET res == LyaData_compress(data)
    IN  /\ ~aborted
        /\ data' = res.obj
        /\ call' = Called("compress")
        /\ outcome' = res.outcome
        /\ added' = added
        /\ wasReset' = wasReset
        /\ UNCHANGED << quasarVars, readVars, cloneVars, nOffsets, mainVars >>

\* data->prune(rmin,rmax,llmin)
Prune(rmin, rmax, llmin) ==
    /\ ~aborted
    /\ data' = LyaData_prune(data, rmin, rmax, llmin)
    /\ call' = Called("prune")
    /\ outcome' = "ok"
    /\ added' = added
    /\ wasReset' = wasReset
    /\ UNCHANGED << quasarVars, readVars, cloneVars, nOffsets, mainVars >>

\* binnedData = loadCosmolib(...) with the cuts of the command line
LoadCosmolib(name, llmin, fixCov, rmin, rmax) ==
    /\ binnedData.isNull
    /\ binnedData' = loadCosmolib(PlateFiles[name], llmin, fixCov, rmin, rmax)
    /\ binnedOutcome' = "ok"
    /\ UNCHANGED << lyaVars, readVars, cloneVars, nOffsets, mainVars >>

\* binnedData->finalize()
QuasarFinalize(ub) ==
    LET res == QuasarCorrelationData_finalize(binnedData, ub)
    IN  /\ ~binnedData.isNull
        /\ binnedOutcome = "ok"
        /\ binnedData' = res.obj
        /\ binnedOutcome' = res.outcome
        /\ UNCHANGED << lyaVars, readVars, cloneVars, nOffsets, mainVars >>

Next ==
    \/ \E name \in PlateNames : Load(name)
    \/ \E name \in PlateNames, repeat \in 1..MaxSize : Add(name, repeat)
    \/ \E fixCovariance \in BOOLEAN : Finalize(fixCovariance)
    \/ Reset
    \/ Compress
    \/ \E rmin \in RMinCuts, rmax \in RMaxCuts, llmin \in LLMinCuts :
          Prune(rmin, rmax, llmin)

Spec == Init /\ [][Next]_vars

QuasarNext ==
    \/ \E name \in PlateNames, llmin \in LLMinCuts, fixCov \in BOOLEAN,
          rmin \in RMinCuts, rmax \in RMaxCuts :
          LoadCosmolib(name, llmin, fixCov, rmin, rmax)
    \/ \E ub \in UBOutcomes : QuasarFinalize(ub)

QuasarSpec == Init /\ [][QuasarNext]_vars

\* binnedData->fixCovariance()
FixCovariance(ub) ==
    LET res == QuasarCorrelationData_fixCovariance(binnedData, ub)
    IN  /\ ~binnedData.isNull
        /\ binnedOutcome = "ok"
        /\ \A a \in 1..Len(binnedData.index) :
              Len(binnedData.covariance[a][a].fixes) < MaxFixes
        /\ binnedData' = res.obj
        /\ binnedOutcome' = res.outcome
        /\ UNCHANGED << lyaVars, readVars, cloneVars, nOffsets, mainVars >>

FixNext ==
    \/ QuasarNext
    \/ \E ub \in UBOutcomes : FixCovariance(ub)

FixSpec == Init /\ [][FixNext]_vars

\* the lines a parameter file may hold
LineBins == {<< 0, 0, 0 >>, << 0, 1, 0 >>, << 1, 0, 0 >>}

ParamsLines(name) ==
    [kind : {"good", "fewer", "more", "nonnumeric"},
     bin : IF name \in {"boss::loadDR9LRG", "boss::loadFrench"}
           THEN {<< 0, 0, 0 >>, << 1, 0, 0 >>, << DR9LRG_nbins, 0, 0 >>}
           ELSE LineBins,
     value : {1}]

LoaderNames ==
    {"LyaData::load", "loadCosmolib", "boss::loadCosmolib", "boss::loadDR9LRG",
     "boss::loadFrench"}

\* a loader is called on a pair of files
StartLoad(name, icov, checkPosDef, fast, opens) ==
    /\ reader.pc = "idle"
    /\ reader' = startLoad(name, icov, checkPosDef, fast, opens)
    /\ UNCHANGED << lyaVars, quasarVars, cloneVars, nOffsets, mainVars >>

\* the loop over the parameter file reads one more line
ReadParams(line) ==
    /\ reader.pc = "params"
    /\ reader.lines < MaxLines
    /\ reader' = readParamsLine(reader, line)
    /\ UNCHANGED << lyaVars, quasarVars, cloneVars, nOffsets, mainVars >>

\* the parameter file ends
EndParams(opens) ==
    /\ reader.pc = "params"
    /\ reader' = endParams(reader, opens)
    /\ UNCHANGED << lyaVars, quasarVars, cloneVars, nOffsets, mainVars >>

\* the values a covariance file may hold
CovValues == {0, 2}

\* the lines a covariance file may hold
CovLines ==
    [kind : {"good", "fewer", "more", "nonnumeric"},
     offset1 : 0..MaxLines, offset2 : 0..MaxLines, value : CovValues]

\* the loop over the covariance file reads one more line
ReadCov(line, ub) ==
    /\ reader.pc = "cov"
    /\ reader.lines < MaxLines
    /\ reader' = readCovLine(reader, line, ub)
    /\ UNCHANGED << lyaVars, quasarVars, cloneVars, nOffsets, mainVars >>

\* the covariance file ends
EndCov ==
    /\ reader.pc = "cov"
    /\ reader' = finishLoad(reader)
    /\ UNCHANGED << lyaVars, quasarVars, cloneVars, nOffsets, mainVars >>

ReadNext ==
    \/ \E name \in LoaderNames, icov \in BOOLEAN, checkPosDef \in BOOLEAN,
          fast \in BOOLEAN, opens \in BOOLEAN :
          StartLoad(name, icov, checkPosDef, fast, opens)
    \/ \E line \in ParamsLines(reader.name) : ReadParams(line)
    \/ \E opens \in BOOLEAN : EndParams(opens)
    \/ \E line \in CovLines, ub \in UBReads : ReadCov(line, ub)
    \/ EndCov

ReadSpec == Init /\ [][ReadNext]_vars

\* cloned = binnedData->clone(binningOnly)
Clone(binningOnly) ==
    /\ ~binnedData.isNull /\ binnedOutcome = "ok"
    /\ cloned.obj.isNull
    /\ cloned' = QuasarCorrelationData_clone(binnedData, binningOnly)
    /\ UNCHANGED << lyaVars, quasarVars, readVars, nOffsets, mainVars >>

\* cloned->cloneCovariance()
CloneCovariance ==
    /\ ~cloned.obj.isNull /\ cloned.outcome = "ok"
    /\ cloned.shared
    /\ cloned' = cloneCovariance(cloned)
    /\ UNCHANGED << lyaVars, quasarVars, readVars, nOffsets, mainVars >>

\* cloned->setCovariance(...) for two bins of the clone
CloneSetCovariance(i, j, value, how) ==
    LET res == clone_setCovariance(binnedData, cloned, i, j, value, how)
    IN  /\ ~cloned.obj.isNull /\ cloned.outcome = "ok"
        /\ i < getNBinsWithData(cloned.obj) /\ j < getNBinsWithData(cloned.obj)
        /\ Len(cloned.obj.covariance) = getNBinsWithData(cloned.obj)
        /\ cloned' = res.clone
        /\ binnedData' = res.original
        /\ UNCHANGED << lyaVars, binnedOutcome, readVars, nOffsets, mainVars >>

\* cloned->setData(index, value) on a clone without covariance
CloneSetData(bin, value) ==
    /\ ~cloned.obj.isNull /\ cloned.outcome = "ok"
    /\ Len(cloned.obj.covariance) = 0
    /\ cloned' = clone_setData(cloned, Index(bin[1], bin[2], bin[3]), value)
    /\ UNCHANGED << lyaVars, quasarVars, readVars, nOffsets, mainVars >>

\* the values written into a clone
WrittenValues == {7}

CloneNext ==
    \/ \E name \in PlateNames, llmin \in LLMinCuts, fixCov \in BOOLEAN,
          rmin \in RMinCuts, rmax \in RMaxCuts :
          LoadCosmolib(name, llmin, fixCov, rmin, rmax)
    \/ \E binningOnly \in BOOLEAN : Clone(binningOnly)
    \/ CloneCovariance
    \/ \E i \in 0..2, j \in 0..2, value \in WrittenValues, how \in SharedWrites :
          CloneSetCovariance(i, j, value, how)
    \/ \E bin \in LineBins, value \in WrittenValues : CloneSetData(bin, value)

CloneSpec == Init /\ [][CloneNext]_vars

\* finalizeData() of a LyaData with n bins
FinalizeData(n) ==
    /\ reader.pc = "idle"
    /\ reader' = finalizeData([NoReader EXCEPT
                                  !.name = "LyaData::load",
                                  !.index = [k \in 1..n |-> k - 1],
                                  !.values = [k \in 1..n |-> 0]])
    /\ UNCHANGED << lyaVars, quasarVars, cloneVars, nOffsets, mainVars >>

\* addCovariance(i, j, value, false)
AddCovariance(i, j, value) ==
    /\ reader.pc = "cov"
    /\ reader.lines < MaxSize
    /\ reader' = addCovariance([reader EXCEPT !.lines = @ + 1], i, j, value)
    /\ UNCHANGED << lyaVars, quasarVars, cloneVars, nOffsets, mainVars >>

PackedNext ==
    \/ \E n \in 1..MaxSize : FinalizeData(n)
    \/ \E i \in 0..MaxSize, j \in 0..MaxSize, value \in CovValues :
          AddCovariance(i, j, value)

PackedSpec == Init /\ [][PackedNext]_vars

\* the bins of the three axes
Grid == (0..(NLL - 1)) \X (0..(NSEP - 1)) \X (0..(NZ - 1))

\* addData(value, ll, sep, z) with the centres of a bin
AddData(bin) ==
    /\ reader.name = "LyaData::load" /\ reader.pc = "params"
    /\ reader.lines < MaxLines
    /\ reader' = addData([reader EXCEPT !.lines = @ + 1], 1, bin)
    /\ UNCHANGED << lyaVars, quasarVars, cloneVars, nOffsets, mainVars >>

IndexNext ==
    \/ \E opens \in BOOLEAN : StartLoad("LyaData::load", FALSE, FALSE, FALSE, opens)
    \/ \E bin \in Grid : AddData(bin)

IndexSpec == Init /\ [][IndexNext]_vars

\* the differences model->evaluate(..,pnew) - model->evaluate(..,pfit)
OffsetValues == {0, 1}

\* plate->applyTheoryOffsets(model,bestParams,nullParams)
ApplyTheoryOffsets(model, offsets) ==
    LET res == LyaData_applyTheoryOffsets(data, model, offsets)
    IN  /\ ~aborted
        /\ nOffsets < MaxOffsets
        /\ data' = res.obj
        /\ call' = Called("applyTheoryOffsets")
        /\ outcome' = res.outcome
        /\ added' = added
        /\ wasReset' = wasReset
        /\ nOffsets' = nOffsets + 1
        /\ UNCHANGED << quasarVars, readVars, cloneVars, mainVars >>

\* main() on one plate: load, compress, and the null-hypothesis offsets
PlateNext ==
    \/ \E name \in PlateNames : Load(name)
    \/ Compress
    \/ \E model \in BOOLEAN, offsets \in [1..getNData(data) -> OffsetValues] :
          ApplyTheoryOffsets(model, offsets)

PlateSpec == Init /\ [][PlateNext]_vars

\* the arguments of twoStepSampling: minll, dll and dll2 of the command line
SamplingValues == {Rat(-1, 1), RZero, Rat(1, 2), RInt(1), RInt(2), Rat(5, 2)}

\* llBins.reset(new likely::NonUniformSampling(twoStepSampling(nll,minll,dll,dll2)))
TwoStepSampling(boss, nBins, breakpoint, dlog, dlin) ==
    LET res == IF boss THEN boss_twoStepSampling(nBins, breakpoint, dlog, dlin)
               ELSE twoStepSampling(nBins, breakpoint, dlog, dlin)
    IN  /\ ~sampling.called
        /\ sampling' = [called |-> TRUE, boss |-> boss, nBins |-> nBins,
                        breakpoint |-> breakpoint, dlog |-> dlog, dlin |-> dlin,
                        outcome |-> res.outcome, points |-> res.points]
        /\ UNCHANGED << lyaVars, quasarVars, readVars, cloneVars, nOffsets, boot, centre, nll >>

SamplingNext ==
    \E boss \in BOOLEAN, nBins \in 0..MaxBins,
       breakpoint \in SamplingValues, dlog \in SamplingValues, dlin \in SamplingValues :
        TwoStepSampling(boss, nBins, breakpoint, dlog, dlin)

SamplingSpec == Init /\ [][SamplingNext]_vars

\* the platelists of the bootstrap runs
PlateLists == {<< "A", "B" >>, << "D", "E" >>, << "B" >>}

\* main() up to the bootstrap loop: the plates are loaded and added,
\* data->finalize(false), data->prune(rmin,rmax,llmin), and the likelihood is
\* built on binnedData
LoadPlates(plates, bootstrapTrials, bootstrapSize, naiveCovariance, rmin, rmax, llmin) ==
    LET sum == addPlates(data, plates)
        fin == IF sum.outcome = "ok" THEN LyaData_finalize(sum.obj, FALSE) ELSE sum
        pruned == IF fin.outcome = "ok" THEN LyaData_prune(fin.obj, rmin, rmax, llmin)
                  ELSE fin.obj
    IN  /\ boot.pc = "load" /\ data = NewLyaData /\ ~aborted
        /\ data' = pruned
        /\ call' = Called("prune")
        /\ outcome' = fin.outcome
        /\ added' = [i \in 1..Len(plates) |-> [plate |-> plates[i], repeat |-> 1]]
        /\ wasReset' = wasReset
        /\ boot' = [boot EXCEPT
                       !.pc = IF 0 < bootstrapTrials /\ 0 < Len(plates)
                              THEN "draw" ELSE "done",
                       !.plates = plates,
                       !.bootstrapTrials = bootstrapTrials,
                       !.bootstrapSize = IF 0 = bootstrapSize THEN Len(plates)
                                         ELSE bootstrapSize,
                       !.naiveCovariance = naiveCovariance,
                       !.nll = LyaBaoLikelihood("binnedData"),
                       !.counter = [i \in 1..Len(plates) |-> 0]]
        /\ UNCHANGED << quasarVars, readVars, cloneVars, nOffsets, sampling, centre, nll >>

\* int index = (int)std::floor(random.getUniform()*nplates); counter[index]++
BootDraw(index) ==
    /\ boot.pc = "draw" /\ ~aborted
    /\ boot.p < boot.bootstrapSize
    /\ index < Len(boot.plates)
    /\ boot' = [boot EXCEPT !.counter[index + 1] = @ + 1, !.p = @ + 1]
    /\ UNCHANGED << lyaVars, quasarVars, readVars, cloneVars, nOffsets, sampling, centre, nll >>

\* data->reset()
BootReset ==
    /\ boot.pc = "draw" /\ ~aborted
    /\ boot.p = boot.bootstrapSize
    /\ data' = LyaData_reset(data)
    /\ call' = Called("reset")
    /\ outcome' = "ok"
    /\ added' = << >>
    /\ wasReset' = TRUE
    /\ boot' = [boot EXCEPT !.pc = "add", !.index = 0]
    /\ UNCHANGED << quasarVars, readVars, cloneVars, nOffsets, sampling, centre, nll >>

\* int repeat = counter[index]; if(0 < repeat) data->add(*plateData[index],repeat)
BootAdd ==
    LET repeat == boot.counter[boot.index + 1]
        name == boot.plates[boot.index + 1]
        res == IF 0 < repeat THEN LyaData_add(data, plateData[name], repeat)
               ELSE [obj |-> data, outcome |-> "ok"]
    IN  /\ boot.pc = "add" /\ ~aborted
        /\ boot.index < Len(boot.plates)
        /\ data' = res.obj
        /\ call' = IF 0 < repeat THEN Called("add") ELSE call
        /\ outcome' = res.outcome
        /\ added' = IF 0 < repeat /\ res.outcome = "ok"
                    THEN Append(added, [plate |-> name, repeat |-> repeat])
                    ELSE added
        /\ wasReset' = wasReset
        /\ boot' = [boot EXCEPT !.index = @ + 1]
        /\ UNCHANGED << quasarVars, readVars, cloneVars, nOffsets, sampling, centre, nll >>

\* data->finalize(!naiveCovariance)
BootFinalize ==
    LET res == LyaData_finalize(data, ~boot.naiveCovariance)
    IN  /\ boot.pc = "add" /\ ~aborted
        /\ boot.index = Len(boot.plates)
        /\ data' = res.obj
        /\ call' = [op |-> "finalize", fixCovariance |-> ~boot.naiveCovariance]
        /\ outcome' = res.outcome
        /\ added' = added
        /\ wasReset' = wasReset
        /\ boot' = [boot EXCEPT !.pc = "fit", !.built = boot.k + 1]
        /\ UNCHANGED << quasarVars, readVars, cloneVars, nOffsets, sampling, centre, nll >>

\* fmin = bsFitter(maxfcn,edmtol), which evaluates nll on the dataset it was
\* built with, then the row of a valid fit or nInvalid++, and ++k
BootFit(valid) ==
    LET last == boot.k + 1 = boot.bootstrapTrials
    IN  /\ boot.pc = "fit" /\ ~aborted
        /\ boot' = [saveFit(boot, valid) EXCEPT
                       !.fit = [trial |-> boot.k, dataset |-> boot.nll.data,
                                builtIn |-> IF boot.nll.data = "data"
                                            THEN boot.built ELSE 0],
                       !.nll.ncalls = @ + 1,
                       !.k = @ + 1,
                       !.p = 0,
                       !.counter = [i \in 1..Len(boot.plates) |-> 0],
                       !.pc = IF last THEN "done" ELSE "draw"]
        /\ UNCHANGED << lyaVars, quasarVars, readVars, cloneVars, nOffsets, sampling, centre, nll >>

BootNext ==
    \/ \E plates \in PlateLists, bootstrapTrials \in 0..MaxTrials,
          bootstrapSize \in 0..MaxSize, naiveCovariance \in BOOLEAN,
          rmin \in RMinCuts, rmax \in RMaxCuts, llmin \in LLMinCuts :
          LoadPlates(plates, bootstrapTrials, bootstrapSize, naiveCovariance,
                     rmin, rmax, llmin)
    \/ \E index \in 0..1 : BootDraw(index)
    \/ BootReset
    \/ BootAdd
    \/ BootFinalize
    \/ \E valid \in BOOLEAN : BootFit(valid)

BootSpec == Init /\ [][BootNext]_vars

\* LyaBaoLikelihood nll(binnedData,model,rmin,rmax,...) after
\* binnedData->finalize
BuildLikelihood(rmin, rmax) ==
    /\ ~nll.built
    /\ ~binnedData.isNull /\ binnedData.finalized /\ binnedOutcome = "ok"
    /\ nll' = LyaBaoLikelihood_new(binnedData, rmin, rmax)
    /\ UNCHANGED << lyaVars, quasarVars, readVars, cloneVars, nOffsets,
                    sampling, boot, centre >>

\* one evaluation of nll by the minimizer
Evaluate ==
    /\ nll.built /\ nll.outcome = "ok" /\ nll.ncalls < MaxCalls
    /\ binnedOutcome = "ok"
    /\ nll' = LyaBaoLikelihood_call(nll, binnedData)
    /\ UNCHANGED << lyaVars, quasarVars, readVars, cloneVars, nOffsets,
                    sampling, boot, centre >>

LikelihoodNext ==
    \/ QuasarNext
    \/ \E rmin \in RMinCuts, rmax \in RMaxCuts : BuildLikelihood(rmin, rmax)
    \/ Evaluate

LikelihoodSpec == Init /\ [][LikelihoodNext]_vars

\* the bin centres and widths of the axes: exp(ll/2), sep and its bin width
\* in arcminutes (half a radian and more, which keeps the arithmetic
\* small), z
Cosmologies == {"linear", "flattening"}
ExpHalfLls == {Rat(1, 2), RInt(1), Rat(3, 2), RInt(2)}
Separations == {RInt(1719), RInt(3438), RInt(10314)}
SeparationWidths == {RInt(3438), RInt(6876)}
Redshifts == {Rat(1, 2), RInt(2), RInt(3)}

\* the centre of one bin goes through LyaData::addData, which calls
\* transform(logLambda,separation,redshift,ds,r3d,mu), and through
\* QuasarCorrelationData::_setIndex, which calls
\* transform(_binCenter[0],_binCenter[1],_binWidth[1],_zLast,_rLast,_muLast)
TransformCentre(cosmology, expHalfLl, sep, dsep, z) ==
    /\ ~centre.called
    /\ centre' = [called |-> TRUE, cosmology |-> cosmology, expHalfLl |-> expHalfLl,
                  sep |-> sep, dsep |-> dsep, z |-> z,
                  lya |-> LyaData_transform(cosmology, expHalfLl, sep, z, dsep),
                  quasar |-> QuasarCorrelationData_transformExact(
                                 cosmology, expHalfLl, sep, dsep, z)]
    /\ UNCHANGED << lyaVars, quasarVars, readVars, cloneVars, nOffsets, sampling, boot, nll >>

TransformNext ==
    \E cosmology \in Cosmologies, expHalfLl \in ExpHalfLls, sep \in Separations,
       dsep \in SeparationWidths, z \in Redshifts :
        TransformCentre(cosmology, expHalfLl, sep, dsep, z)

TransformSpec == Init /\ [][TransformNext]_vars

-----------------------------------------------------------------------------
(***************************************************************************)
(* What the plate files say the accumulators and the combination must be.  *)
(***************************************************************************)
PlateIcov(name) == IntMat(PlateFiles[name].icov)
PlateValues(name) == IntVec(PlateFiles[name].values)
PlateIcovData(name) == MatVec(PlateIcov(name), PlateValues(name))
PlateSize(name) == Len(PlateFiles[name].bins)

Front(seq) == SubSeq(seq, 1, Len(seq) - 1)
Last(seq) == seq[Len(seq)]

\* sum over the adds of repeat * icovData of the plate, in n bins; a plate
\* without populated bins has nothing to contribute
RECURSIVE SumIcovData(_, _)
SumIcovData(adds, n) ==
    IF adds = << >> THEN ZeroVec(n)
    ELSE IF PlateSize(Last(adds).plate) # n THEN SumIcovData(Front(adds), n)
    ELSE VecAdd(SumIcovData(Front(adds), n),
                VecScale(Last(adds).repeat, PlateIcovData(Last(adds).plate)))

\* sum over the adds of repeat^power * inverse covariance of the plate
RECURSIVE SumIcov(_, _, _)
SumIcov(adds, n, power) ==
    IF adds = << >> THEN ZeroMat(n)
    ELSE IF PlateSize(Last(adds).plate) # n THEN SumIcov(Front(adds), n, power)
    ELSE MatAdd(SumIcov(Front(adds), n, power),
                MatScale(IF power = 2 THEN Last(adds).repeat * Last(adds).repeat
                         ELSE Last(adds).repeat,
                         PlateIcov(Last(adds).plate)))

AllOnce(adds) == \A k \in 1..Len(adds) : adds[k].repeat = 1

Accumulating == ~data.dataFinalized /\ outcome = "ok" /\ added # << >>

JustFinalized == call.op = "finalize" /\ outcome = "ok"

\* C1: while plates are being added to a dataset that was empty, icovData is
\* the sum of repeat * icovData of the plates, the inverse covariance the sum
\* of repeat^2 * their inverse covariances and the tilde inverse covariance
\* the sum of repeat * their inverse covariances, whatever the order of adds
C1_AccumulatorsAreWeightedSums ==
    Accumulating =>
        LET n == getNData(data)
        IN  /\ data.icovData = SumIcovData(added, n)
            /\ data.covariance.icov = SumIcov(added, n, 2)
            /\ data.covarianceTilde.icov = SumIcov(added, n, 1)

C1_Witness ==
    /\ Accumulating /\ call.op = "add" /\ Len(added) = 2
    /\ added[1].plate = "B" /\ added[1].repeat = 2
    /\ added[2].plate = "A" /\ added[2].repeat = 1
    /\ data.covariance.icov = IntMat(<< <<6, 1>>, <<1, 14>> >>)
    /\ data.covarianceTilde.icov = IntMat(<< <<4, 1>>, <<1, 8>> >>)
    /\ data.icovData = IntVec(<< 9, 1 >>)

\* C2: after adds that all use repeat 1 and finalize(false), the inverse
\* covariance is the sum of the plates' inverse covariances and the data is
\* that sum's inverse applied to the sum of icov_k * data_k; one plate alone
\* gives back its own data and covariance, and two plates of unit diagonal
\* inverse covariance give the diagonal 2 and the average of each bin
C2_UnweightedCombination ==
    (JustFinalized /\ ~call.fixCovariance /\ AllOnce(added)) =>
        LET n == getNData(data)
        IN  /\ data.covariance.icov = SumIcov(added, n, 1)
            /\ data.data = MatVec(Inverse(SumIcov(added, n, 1)), SumIcovData(added, n))
            /\ Len(added) = 1 =>
                  /\ data.data = PlateValues(added[1].plate)
                  /\ data.covariance.icov = PlateIcov(added[1].plate)
            /\ (Len(added) = 2 /\ added[1].plate = "D" /\ added[2].plate = "E") =>
                  /\ data.covariance.icov =
                        IntMat(<< <<2, 0, 0>>, <<0, 2, 0>>, <<0, 0, 2>> >>)
                  /\ data.data = IntVec(<< 2, 4, 1 >>)

C2_Witness ==
    /\ JustFinalized /\ ~call.fixCovariance /\ AllOnce(added)
    /\ Len(added) = 2 /\ added[1].plate = "A" /\ added[2].plate = "B"
    /\ data.covariance.icov = IntMat(<< <<3, 1>>, <<1, 5>> >>)
    /\ data.data = << Rat(31, 14), Rat(5, 14) >>

\* C3: finalize after the single add(plate, 2): with fixCovariance the
\* inverse covariance is icovTilde * icov^-1 * icovTilde, and the variance of
\* every bin differs from, and is larger than, the variance finalize(false)
\* gives after the same add
C3_FixedCovarianceIsLarger ==
    [][(call'.op = "finalize" /\ outcome' = "ok"
            /\ Len(added) = 1 /\ added[1].repeat = 2) =>
        LET fixed == LyaData_finalize(data, TRUE).obj
            naive == LyaData_finalize(data, FALSE).obj
            tilde == data.covarianceTilde.icov
        IN  /\ data' = IF call'.fixCovariance THEN fixed ELSE naive
            /\ fixed.covariance.icov =
                  MatMul(MatMul(tilde, Inverse(data.covariance.icov)), tilde)
            /\ fixed.covariance.icov = PlateIcov(added[1].plate)
            /\ naive.covariance.icov = MatScale(2, PlateIcov(added[1].plate))
            /\ \A k \in 0..(getNData(data) - 1) :
                  /\ getVariance(fixed, k) # getVariance(naive, k)
                  /\ RLess(getVariance(naive, k), getVariance(fixed, k))]_vars

C3_Witness ==
    /\ JustFinalized /\ call.fixCovariance
    /\ added = << [plate |-> "A", repeat |-> 2] >>
    /\ data.covariance.icov = IntMat(<< <<2, 1>>, <<1, 2>> >>)
    /\ getVariance(data, 0) = Rat(2, 3)

\* C4: when every add used repeat 1, finalize(true) and finalize(false) give
\* the same data and the same covariance
C4_NoRepeatNoCorrection ==
    [][(call'.op = "finalize" /\ outcome' = "ok" /\ AllOnce(added)) =>
        LET fixed == LyaData_finalize(data, TRUE).obj
            naive == LyaData_finalize(data, FALSE).obj
        IN  /\ data' = IF call'.fixCovariance THEN fixed ELSE naive
            /\ fixed.data = naive.data
            /\ fixed.covariance.icov = naive.covariance.icov
            /\ \A i, j \in 0..(getNData(data) - 1) :
                  getCovariance(fixed.covariance, i, j) =
                      getCovariance(naive.covariance, i, j)]_vars

C4_Witness ==
    /\ JustFinalized /\ call.fixCovariance /\ AllOnce(added)
    /\ Len(added) = 2 /\ added[1].plate = "A" /\ added[2].plate = "B"
    /\ data.covariance.icov = IntMat(<< <<3, 1>>, <<1, 5>> >>)

Finalized(self) == self.dataFinalized /\ self.covarianceFinalized

\* no add has been accepted since construction or the last reset
Empty == added = << >> /\ ~Finalized(data)

\* C5: an add on a finalized dataset (finalized by finalize or by load)
\* fails and changes nothing, and only reset() ends the finalized state
C5_AddOnFinalizedFails ==
    [][/\ (Finalized(data) /\ call'.op = "add") =>
              (outcome' # "ok" /\ data' = data /\ added' = added)
       /\ (Finalized(data) /\ ~Finalized(data')) => call'.op = "reset"]_vars

C5_Witness ==
    /\ call.op = "add" /\ outcome = "assert"
    /\ Finalized(data) /\ Len(added) = 2
    /\ data.covarianceTilde.isNull

\* C6: finalize on an empty dataset (new, or reset with no add since) and on
\* a finalized dataset fails, and the call does not leave an empty dataset
\* finalized
C6_FinalizeOnEmptyOrFinalizedFails ==
    [][(call'.op = "finalize" /\ (Empty \/ Finalized(data))) =>
          /\ outcome' # "ok"
          /\ Empty => ~data'.dataFinalized /\ ~data'.covarianceFinalized
          /\ Finalized(data) => data' = data]_vars

C6_Witness ==
    /\ call.op = "finalize" /\ outcome = "null"
    /\ wasReset /\ Empty
    /\ Len(data.icovData) > 0

\* the dataset a sequence of adds builds from a newly constructed one
RECURSIVE Replay(_)
Replay(adds) ==
    IF adds = << >> THEN NewLyaData
    ELSE LyaData_add(Replay(Front(adds)), plateData[Last(adds).plate],
                     Last(adds).repeat).obj

\* C7: after a reset the dataset is empty again, and the adds that follow,
\* and their finalize, give the data, icovData and covariance that the same
\* adds and finalize give on a newly constructed dataset
C7_ResetDiscardsHistory ==
    (wasReset /\ outcome = "ok") =>
        /\ call.op = "reset" =>
              /\ Empty /\ getNData(data) = 0 /\ ~data.compressed
              /\ data.covariance.isNull /\ data.covarianceTilde.isNull
        /\ Accumulating =>
              LET fresh == Replay(added)
              IN  /\ data.data = fresh.data
                  /\ data.icovData = fresh.icovData
                  /\ data.covariance.icov = fresh.covariance.icov
                  /\ data.covarianceTilde.icov = fresh.covarianceTilde.icov
        /\ JustFinalized =>
              LET fresh == LyaData_finalize(Replay(added), call.fixCovariance).obj
              IN  /\ data.data = fresh.data
                  /\ data.icovData = fresh.icovData
                  /\ data.covariance = fresh.covariance

C7_Witness ==
    /\ wasReset /\ JustFinalized /\ call.fixCovariance
    /\ added = << [plate |-> "A", repeat |-> 2], [plate |-> "B", repeat |-> 1] >>
    /\ data.icovData = IntVec(<< 12, 11 >>)

\* C8: every plate accepted after the first has the populated bins of the
\* first, in the same order: an add of a plate with another layout is
\* rejected and not accumulated
C8_AcceptedPlatesShareLayout ==
    \A k \in 1..Len(added) :
        PlateFiles[added[k].plate].bins = PlateFiles[added[1].plate].bins

\* the bins of a sequence of populated bins that lie inside the cuts, by the
\* radius and the log-lambda centre of each bin, in their order
InsideCuts(index, rmin, rmax, llmin) ==
    /\ rmin <= binRadius(index) /\ binRadius(index) < rmax
    /\ getBinCenters(index)[1] >= llmin
KeptBins(bins, rmin, rmax, llmin) ==
    SelectSeq(bins, LAMBDA index : InsideCuts(index, rmin, rmax, llmin))

\* C9: prune(rmin,rmax,llmin) keeps a populated bin exactly when
\* rmin <= radius < rmax and its log-lambda centre >= llmin (radius rmax
\* removed, radius rmin kept, centre llmin kept), the kept bins in their order
C9_PruneKeepsBinsInsideCuts ==
    [][\A rmin \in RMinCuts, rmax \in RMaxCuts, llmin \in LLMinCuts :
          Prune(rmin, rmax, llmin) =>
              data'.binnedData = KeptBins(data.binnedData, rmin, rmax, llmin)]_vars

\* the same for a prune of a dataset whose bins were not pruned before, where
\* _r3d[offset] is the radius of the bin at that offset
PruneOfUnprunedKeepsBinsInsideCuts ==
    [][\A rmin \in RMinCuts, rmax \in RMaxCuts, llmin \in LLMinCuts :
          (Prune(rmin, rmax, llmin) /\ data.binnedData = data.index) =>
              data'.binnedData = KeptBins(data.binnedData, rmin, rmax, llmin)]_vars

\* the dataset finalize() has completed on
QuasarFinalized == ~binnedData.isNull /\ binnedData.finalized /\ binnedOutcome = "ok"

\* C10: after QuasarCorrelationData::finalize() each lookup table has
\* getNBinsWithData() entries, and getRadius, getCosAngle and getRedshift of
\* every surviving bin return the (r,mu,z) that the transform gives for the
\* centre of that bin
C10_LookupTablesMatchSurvivingBins ==
    QuasarFinalized =>
        /\ Len(binnedData.rLookup) = getNBinsWithData(binnedData)
        /\ Len(binnedData.muLookup) = getNBinsWithData(binnedData)
        /\ Len(binnedData.zLookup) = getNBinsWithData(binnedData)
        /\ \A k \in 1..getNBinsWithData(binnedData) :
              LET index == binnedData.index[k]
                  c == getBinCenters(index)
                  t == QuasarCorrelationData_transform(c[1], c[2], 1, c[3])
              IN  /\ QuasarCorrelationData_getRadius(binnedData, index) = t.r
                  /\ QuasarCorrelationData_getCosAngle(binnedData, index) = t.mu
                  /\ QuasarCorrelationData_getRedshift(binnedData, index) = c[3]
                  /\ binnedData.rLookup[k] = t.r

\* a bin below llmin was cut ahead of the bin that survives
C10_Witness ==
    /\ QuasarFinalized /\ binnedData.llmin = 2
    /\ binnedData.index = << Index(1, 0, 0) >>
    /\ binnedData.values = << 1 >>
    /\ binnedData.rLookup = << 20 >> /\ binnedData.muLookup = << 100 >>

\* finalize() leaves the bins with rmin <= r < rmax and ll >= llmin, in
\* their order
QuasarFinalizeKeepsBinsInsideCuts ==
    [][(~binnedData.isNull /\ ~binnedData.finalized /\ binnedOutcome' = "ok") =>
          binnedData'.index = KeptBins(binnedData.index, binnedData.rmin,
                                       binnedData.rmax, binnedData.llmin)]_vars

\* C11: finalize() on a finalized dataset fails and leaves the populated
\* bins and the three lookup tables as the first finalize left them
C11_SecondFinalizeChangesNothing ==
    [][(~binnedData.isNull /\ binnedData.finalized) =>
          /\ binnedOutcome' # "ok"
          /\ binnedData'.index = binnedData.index
          /\ binnedData'.rLookup = binnedData.rLookup
          /\ binnedData'.muLookup = binnedData.muLookup
          /\ binnedData'.zLookup = binnedData.zLookup]_vars

\* the second finalize has failed and the tables hold each bin twice
C11_Witness ==
    /\ binnedData.finalized /\ binnedOutcome = "throw"
    /\ getNBinsWithData(binnedData) = 2
    /\ Len(binnedData.rLookup) = 4

\* finalize() on a finalized dataset fails
SecondFinalizeFails ==
    [][(~binnedData.isNull /\ binnedData.finalized) => binnedOutcome' # "ok"]_vars

\* the loader's pattern matches the line
accepts(self, line) ==
    IF self.name \in {"LyaData::load", "loadCosmolib"}
    THEN regex_match(self.fast, line) ELSE phrase_parse(line)

\* the global index a line of the parameter file addresses
lineIndex(self, line) ==
    IF self.name \in {"boss::loadDR9LRG", "boss::loadFrench"}
    THEN DR9LRG_getIndex(line.bin)
    ELSE Index(line.bin[1], line.bin[2], line.bin[3])

\* C12: a line of the parameter file that addresses a bin that already has
\* a value ends the load in an error that reaches the caller
C12_FilledBinFailsLoudly ==
    [][\A line \in ParamsLines(reader.name) :
          (ReadParams(line) /\ accepts(reader, line)
             /\ hasData(reader, lineIndex(reader, line)))
          => reader'.outcome \in {"throw", "assert"}]_vars

\* the loader returned the zeros of the prototype for a file it stopped
\* reading at its first line
C12_Witness ==
    /\ reader.name = "boss::loadDR9LRG" /\ reader.outcome = "returned"
    /\ reader.lines = 0
    /\ \A k \in 1..Len(reader.values) : reader.values[k] = 0

\* a bin declared twice in a parameter file ends the load in an error
DeclaredTwiceFailsLoudly ==
    [][\A line \in ParamsLines(reader.name) :
          (ReadParams(line) /\ accepts(reader, line)
             /\ reader.name # "boss::loadDR9LRG"
             /\ hasData(reader, lineIndex(reader, line)))
          => reader'.outcome \in {"throw", "assert"}]_vars

\* C13: clone(true) gives a dataset with the binning and final cuts of the
\* original and no bin with data; clone(false) gives a copy of the data and
\* covariance that is independent of the original: a write into the clone
\* is made in the clone and leaves the original as it was
C13_CloneIsIndependent ==
    [][/\ Clone(TRUE) =>
             /\ cloned'.obj.llmin = binnedData.llmin
             /\ cloned'.obj.rmin = binnedData.rmin
             /\ cloned'.obj.rmax = binnedData.rmax
             /\ getNBinsWithData(cloned'.obj) = 0
       /\ Clone(FALSE) => cloned'.obj = binnedData
       /\ \A i \in 0..2, j \in 0..2, value \in WrittenValues, how \in SharedWrites :
             (CloneSetCovariance(i, j, value, how) /\ ~cloned.obj.finalized)
             => /\ binnedData' = binnedData
                /\ cloned'.outcome = "ok"
                /\ cloned'.obj.covariance[i + 1][j + 1].value = value
       /\ \A bin \in LineBins, value \in WrittenValues :
             CloneSetData(bin, value) => binnedData' = binnedData]_vars

\* a write into the covariance of a clone(false) of plate A has changed the
\* covariance of the original
C13_Witness ==
    /\ cloned.shared /\ cloned.outcome = "ok"
    /\ cloned.obj.covariance[1][2].value = 7
    /\ binnedData.covariance[1][2].value = 7
    /\ binnedData.values = << 1, 3 >>

\* clone(true) is an empty dataset with the cuts of the original, the data
\* of a clone(false) are a copy, and after cloneCovariance() the writes
\* into a clone leave the original as it was
CloneAfterCloneCovarianceIsIndependent ==
    [][/\ Clone(TRUE) =>
             /\ cloned'.obj.llmin = binnedData.llmin
             /\ cloned'.obj.rmin = binnedData.rmin
             /\ cloned'.obj.rmax = binnedData.rmax
             /\ getNBinsWithData(cloned'.obj) = 0
       /\ Clone(FALSE) => cloned'.obj = binnedData
       /\ (~cloned.shared /\ ~cloned.obj.isNull) => binnedData' = binnedData
       /\ \A i \in 0..2, j \in 0..2, value \in WrittenValues, how \in SharedWrites :
             (CloneSetCovariance(i, j, value, how) /\ ~cloned.obj.finalized
                /\ ~cloned.shared)
             => /\ cloned'.outcome = "ok"
                /\ cloned'.obj.covariance[i + 1][j + 1].value = value]_vars

\* the loaders whose covariance file addresses bins by their offsets
ByOffset == {"LyaData::load", "loadCosmolib", "boss::loadCosmolib"}

\* a well-formed line of the covariance file is stored at the two bins
\* declared offset1-th and offset2-th
StoredAtDeclaredBins(line) ==
    reader'.outcome = "running" =>
        BinnedData_getCovariance(reader', reader.index[line.offset1 + 1],
                                 reader.index[line.offset2 + 1])
            = Sci(signed(reader.icov, line.value), 0)

\* C14: a line of the covariance file is stored at the bins declared
\* offset1-th and offset2-th, and a line with an offset that is not below
\* the number of declared bins is rejected with an error and stores nothing
C14_CovarianceLineAddressesDeclaredBins ==
    [][\A line \in CovLines, ub \in UBReads :
          (ReadCov(line, ub) /\ line.kind = "good" /\ reader.name \in ByOffset)
          => IF line.offset1 < Len(reader.index)
                /\ line.offset2 < Len(reader.index)
             THEN StoredAtDeclaredBins(line)
             ELSE /\ reader'.outcome \in {"throw", "assert"}
                  /\ reader'.elements = reader.elements]_vars

\* a line with an offset past the declared bins ended the process in the
\* read of the index vector
C14_Witness ==
    /\ reader.name = "boss::loadCosmolib" /\ reader.outcome = "crash"
    /\ Len(reader.index) = 1

\* lines whose offsets are below the number of declared bins are stored at
\* the declared bins
InRangeLineStoredAtDeclaredBins ==
    [][\A line \in CovLines, ub \in UBReads :
          (ReadCov(line, ub) /\ line.kind = "good" /\ reader.name \in ByOffset
             /\ line.offset1 < Len(reader.index)
             /\ line.offset2 < Len(reader.index))
          => StoredAtDeclaredBins(line) /\ reader'.outcome \in {"running", "assert"}]_vars

\* LyaData::load rejects a line with an offset past the declared bins
LyaDataRejectsOffsetPastBins ==
    [][\A line \in CovLines, ub \in UBReads :
          (ReadCov(line, ub) /\ line.kind = "good"
             /\ reader.name = "LyaData::load"
             /\ (line.offset1 >= Len(reader.index)
                   \/ line.offset2 >= Len(reader.index)))
          => /\ reader'.outcome = "assert"
             /\ reader'.elements = reader.elements]_vars

\* the load failed with an error that names `file` and line `line`
FailsNaming(file, line) ==
    /\ reader'.outcome = "throw"
    /\ reader'.message.file = file
    /\ reader'.message.line = line

\* C15: a line that does not match the schema of its file makes the loader
\* fail with an error that names the file being read and the 1-based number
\* of the line, and a file that cannot be opened makes the loader fail
C15_MalformedLineNamesFileAndLine ==
    [][/\ \A line \in ParamsLines(reader.name) :
             (line.kind # "good" /\ ReadParams(line))
             => FailsNaming("params", reader.lines + 1)
       /\ \A line \in CovLines, ub \in UBReads :
             (line.kind # "good" /\ ReadCov(line, ub))
             => FailsNaming("cov", reader.lines + 1)
       /\ (StartLoad(reader'.name, reader'.icov, reader'.checkPosDef,
                     reader'.fast, FALSE)
             \/ (EndParams(FALSE) /\ reader.name # "boss::loadDR9LRG"))
             => reader'.outcome = "throw"]_vars

\* a malformed line of the covariance file was reported as a line of the
\* parameter file
C15_Witness ==
    /\ reader.name = "boss::loadCosmolib" /\ reader.outcome = "throw"
    /\ reader.message = Message("cov", "params", 2)

\* a file that cannot be opened makes every loader fail, and a line the
\* loader rejects is reported with its 1-based number and no dataset
UnopenedFileOrRejectedLineFails ==
    [][/\ (StartLoad(reader'.name, reader'.icov, reader'.checkPosDef,
                     reader'.fast, FALSE)
             \/ (EndParams(FALSE) /\ reader.name # "boss::loadDR9LRG"))
          => reader'.outcome = "throw" /\ reader'.message.kind = "open"
       /\ reader'.message.kind \in {"params", "cov"}
          => /\ reader'.outcome = "throw"
             /\ reader'.message.line = reader.lines + 1]_vars

\* slot s of the packed store is on the diagonal of a bin with data
OnDiagonal(self, s) ==
    \E k \in 0..(Len(self.index) - 1) : s = packedIndex(k, k) + 1

\* a step of EndCov; what tells it from a step of the loop comes first
AtEndOfCovarianceFile ==
    /\ reader'.pc = "done" /\ reader'.lines = reader.lines
    /\ reader'.message.kind \in {"none", "posdef"}
    /\ reader'.outcome \in {"returned", "throw"}
    /\ EndCov

\* C16: at the end of a load every bin with data has a non-zero diagonal
\* element: a zero diagonal element has become 1e40 (covariance file) or
\* 1e-30 (inverse covariance file), every other element is as it was read,
\* and the load is not rejected for it
C16_ZeroDiagonalReplaced ==
    [][(reader.name \in ByOffset /\ AtEndOfCovarianceFile) =>
          /\ \A s \in 1..Len(reader.elements) :
                reader'.elements[s] =
                    IF OnDiagonal(reader, s) /\ reader.elements[s].mant = 0
                    THEN Sci(1, IF reader.icov THEN -30 ELSE 40)
                    ELSE reader.elements[s]
          /\ \A k \in 0..(Len(reader.index) - 1) :
                getSymmetric(reader'.elements, k, k).mant # 0
          /\ reader'.outcome # "returned" => ~isPositiveDefinite(reader')]_vars

\* a load returned a covariance whose first bin, never written, has
\* variance 1e40 next to the elements of the file
C16_Witness ==
    /\ reader.name = "LyaData::load" /\ reader.outcome = "returned"
    /\ ~reader.icov
    /\ reader.elements = << Sci(1, 40), Sci(2, 0), Sci(2, 0) >>

\* C17: a load with the positive-definiteness check enabled does not return
\* a dataset whose matrix is not positive-definite as if it had succeeded
C17_NotPositiveDefiniteIsFatal ==
    (reader.outcome = "returned" /\ reader.checkPosDef)
        => isPositiveDefinite(reader)

\* boss::loadFrench returned a dataset after its check had found the
\* covariance [[2,2],[2,0]] not positive-definite
C17_Witness ==
    /\ reader.name = "boss::loadFrench" /\ reader.outcome = "returned"
    /\ reader.checkPosDef /\ reader.cerr
    /\ reader.elements = << Sci(2, 0), Sci(2, 0), Sci(0, 0) >>

\* LyaData::load of a covariance file does not return a covariance that is
\* not positive-definite
LyaDataLoadInverts ==
    (reader.name = "LyaData::load" /\ reader.outcome = "returned" /\ ~reader.icov)
        => isPositiveDefinite(reader)

\* C19: in a store of n bins, element (i,j) written is the element read as
\* (j,i): both are slot row + col*(col+1)/2 of the packed store, with row
\* the smaller and col the larger of i and j, and distinct unordered pairs
\* have distinct slots in [0, n(n+1)/2)
C19_PackedStoreIsSymmetric ==
    [][\A i \in 0..MaxSize, j \in 0..MaxSize, value \in CovValues :
          (AddCovariance(i, j, value) /\ reader'.outcome = "running") =>
             LET n == Len(reader.index)
                 slot == packedIndex(i, j)
             IN  /\ getSymmetric(reader'.elements, j, i) = Sci(value, 0)
                 /\ getSymmetric(reader'.elements, i, j) = Sci(value, 0)
                 /\ slot = packedIndex(j, i)
                 /\ slot = (IF i < j THEN i ELSE j)
                           + ((IF i < j THEN j ELSE i)
                              * ((IF i < j THEN j ELSE i) + 1)) \div 2
                 /\ slot >= 0 /\ slot < (n * (n + 1)) \div 2
                 /\ \A s \in 1..Len(reader.elements) :
                       s # slot + 1 => reader'.elements[s] = reader.elements[s]
                 /\ \A k \in 0..(n - 1), l \in 0..(n - 1) :
                       packedIndex(k, l) = slot => {k, l} = {i, j}]_vars

\* the one element written into a store of three bins is read as (0,2) and
\* as (2,0), from slot 3
C19_Witness ==
    /\ reader.name = "LyaData::load" /\ reader.pc = "cov"
    /\ Len(reader.index) = 3 /\ reader.lines = 1
    /\ reader.elements[4] = Sci(2, 0)
    /\ getSymmetric(reader.elements, 0, 2) = Sci(2, 0)
    /\ getSymmetric(reader.elements, 2, 0) = Sci(2, 0)

\* C20: for the bins (i1,i2,i3) of the three axes the global index
\* (i1*n2+i2)*n3+i3 lies in [0, n1*n2*n3) and decodes to (i1,i2,i3), its
\* remainder modulo n3, which getRedshift uses, is i3, and it is the index
\* the binned dataset derives from the same coordinates, so that addData
\* of a bin of an empty dataset passes its assert on the two
C20_IndexRoundTrip ==
    [][\A bin \in Grid :
        /\ (Len(reader.index) = 0 /\ AddData(bin)) =>
              /\ reader'.outcome = "running"
              /\ reader'.index = << (bin[1] * NSEP + bin[2]) * NZ + bin[3] >>
        /\ (/\ Len(reader'.index) > Len(reader.index)
            /\ Index(bin[1], bin[2], bin[3]) = Last(reader'.index)
            /\ AddData(bin)) =>
             LET index == Last(reader'.index)
             IN  /\ index = (bin[1] * NSEP + bin[2]) * NZ + bin[3]
                 /\ index >= 0 /\ index < NLL * NSEP * NZ
                 /\ getBinIndices(index) = bin
                 /\ index % NZ = bin[3]
                 /\ getRedshift(reader', Len(reader'.index) - 1)
                       = getBinCenter(3, bin[3])
                 /\ index = BinnedData_getIndex(bin)]_vars

\* addData has been called for the bin (1,2,1)
C20_Witness ==
    /\ reader.name = "LyaData::load" /\ reader.outcome = "running"
    /\ reader.index = << Index(1, 2, 1) >>
    /\ getBinIndices(reader.index[1]) = << 1, 2, 1 >>

\* C18: compress() changes no element read, zeros included, and
\* applyTheoryOffsets on a compressed plate gives the data and the icovData
\* it gives on the uncompressed plate and leaves the plate compressed again.
sameElements(before, after) ==
    /\ Len(after.icov) = Len(before.icov)
    /\ \A row \in 1..Len(before.icov), col \in 1..Len(before.icov) :
          after.icov[row][col] = before.icov[row][col]
sameOffsetsResult(plain, packed) ==
    \A offsets \in [1..getNData(plain) -> OffsetValues] :
        LET onPlain == LyaData_applyTheoryOffsets(plain, TRUE, offsets)
            onPacked == LyaData_applyTheoryOffsets(packed, TRUE, offsets)
        IN  /\ onPacked.outcome = onPlain.outcome
            /\ onPacked.obj.data = onPlain.obj.data
            /\ onPacked.obj.icovData = onPlain.obj.icovData
            /\ sameElements(onPlain.obj.covariance, onPacked.obj.covariance)
            /\ onPacked.obj.covariance.compressed
StrictlyIncreasing(points) ==
    \A k \in 1..(Len(points) - 1) : RLess(squared(points[k]), squared(points[k + 1]))
\* the points after the first are nUniform points dlin apart that stay
\* below the breakpoint, then points above the breakpoint, each q times the
\* one before
UniformThenGeometric(points, breakpoint, dlog, dlin) ==
    LET nUniform == floor(RDiv(breakpoint, dlin))
        q == RDiv(RAdd(breakpoint, dlog), breakpoint)
    IN  /\ points[1] = SamplePoint(RZero, RInt(1))
        /\ Len(points) >= 1 + nUniform
        /\ \A k \in 2..(1 + nUniform) :
              /\ points[k].rad = RInt(1)
              /\ RLess(points[k].coef, breakpoint)
              /\ k > 2 => RSub(points[k].coef, points[k - 1].coef) = dlin
        /\ \A k \in (2 + nUniform)..Len(points) :
              /\ RLess(RMul(breakpoint, breakpoint), squared(points[k]))
              /\ k > 2 + nUniform =>
                    /\ points[k].rad = points[k - 1].rad
                    /\ points[k].coef = RMul(q, points[k - 1].coef)

\* C21: with breakpoint, dlog and dlin positive, twoStepSampling returns
\* exactly nBins strictly increasing points, 0 first, then
\* floor(breakpoint/dlin) uniformly spaced points, then geometrically spaced
\* points above the breakpoint; with one of them <= 0 it fails.
C21_SamplingHasNBinsPoints ==
    sampling.called =>
        IF validSampling(sampling.breakpoint, sampling.dlog, sampling.dlin)
        THEN /\ sampling.outcome = "ok"
             /\ Len(sampling.points) = sampling.nBins
             /\ StrictlyIncreasing(sampling.points)
             /\ UniformThenGeometric(sampling.points, sampling.breakpoint,
                                     sampling.dlog, sampling.dlin)
        ELSE sampling.outcome # "ok"
\* four bins asked, a breakpoint of 5/2 and uniform bins of 1/2: six
\* points returned
C21_Witness ==
    /\ sampling.called /\ sampling.outcome = "ok"
    /\ sampling.nBins = 4
    /\ sampling.breakpoint = Rat(5, 2) /\ sampling.dlin = Rat(1, 2)
    /\ Len(sampling.points) = 6
\* all of C21 but the number of points, which is nBins when nBins is above
\* floor(breakpoint/dlin) and 1 + floor(breakpoint/dlin) otherwise
SamplingIsIncreasingAndFailsOnBadArguments ==
    sampling.called =>
        IF validSampling(sampling.breakpoint, sampling.dlog, sampling.dlin)
        THEN /\ sampling.outcome = "ok"
             /\ LET nUniform == floor(RDiv(sampling.breakpoint, sampling.dlin))
                IN  Len(sampling.points) =
                        IF sampling.nBins > nUniform THEN sampling.nBins
                        ELSE 1 + nUniform
             /\ StrictlyIncreasing(sampling.points)
             /\ UniformThenGeometric(sampling.points, sampling.breakpoint,
                                     sampling.dlog, sampling.dlin)
        ELSE sampling.outcome # "ok"

\* the adds a trial owes: add(plate, repeat) for every plate drawn at least
\* once, in the order of the platelist
RECURSIVE drawn(_, _, _)
drawn(plates, counter, n) ==
    IF n = 0 THEN << >>
    ELSE LET before == drawn(plates, counter, n - 1)
         IN  IF counter[n] > 0
             THEN Append(before, [plate |-> plates[n], repeat |-> counter[n]])
             ELSE before
\* the accumulator is reset, then added to, then finalized, and at the
\* finalize it holds the adds the trial owes and nothing else
TrialInOrder ==
    /\ (boot.pc = "add" /\ ~aborted) =>
          /\ call.op \in {"reset", "add"}
          /\ ~data.dataFinalized
          /\ added = drawn(boot.plates, boot.counter, boot.index)
    /\ (boot.pc = "fit" /\ ~aborted) =>
          /\ call.op = "finalize"
          /\ data.dataFinalized
          /\ added = drawn(boot.plates, boot.counter, Len(boot.plates))
          /\ repeats(added) = boot.bootstrapSize
          /\ boot.built = boot.k + 1

\* C22: a bootstrap trial resets, adds every plate drawn with its repeat
\* count (the counts summing to the bootstrap size), finalizes, and then
\* fits with a chi-square evaluated on the combined dataset that trial
\* built; no add falls after the finalize or before the reset of its trial.
C22_TrialFitsItsOwnDataset ==
    /\ TrialInOrder
    /\ boot.fit.trial >= 0 =>
          /\ boot.fit.dataset = "data"
          /\ boot.fit.builtIn = boot.fit.trial + 1
\* the fit of the second trial has read binnedData, which no trial builds
C22_Witness ==
    /\ boot.pc = "done" /\ boot.k = 2 /\ boot.built = 2
    /\ boot.fit.trial = 1 /\ boot.fit.dataset = "binnedData"
    /\ boot.fit.builtIn = 0
\* the order of reset, add, finalize and fit within a trial, which holds
TrialResetsAddsFinalizesThenFits ==
    /\ TrialInOrder
    /\ boot.fit.trial >= 0 => boot.fit.trial = boot.k - 1

\* C23: a trial whose fit is not valid is counted in nInvalid, writes no
\* row and accumulates nothing, and the loop goes on to the next trial
\* without fitting it again; after the T trials, rows + nInvalid = T.
C23_InvalidTrialIsCountedAndSkipped ==
    [][/\ BootFit(FALSE) =>
            /\ boot'.nInvalid = boot.nInvalid + 1
            /\ boot'.rows = boot.rows
            /\ boot'.accumulated = boot.accumulated
            /\ boot'.k = boot.k + 1
            /\ boot'.pc = IF boot'.k = boot.bootstrapTrials THEN "done" ELSE "draw"
       /\ BootFit(TRUE) =>
            /\ boot'.nInvalid = boot.nInvalid
            /\ boot'.rows = Append(boot.rows, [trial |-> boot.k,
                                               nuniq |-> nuniq(boot.counter)])
            /\ boot'.accumulated = boot.accumulated + 1
       /\ (boot.pc = "fit" /\ boot'.pc = "done") =>
            /\ boot'.k = boot.bootstrapTrials
            /\ Len(boot'.rows) + boot'.nInvalid = boot.bootstrapTrials
            /\ boot'.accumulated = Len(boot'.rows)]_vars
\* two trials are done, the first valid and the second not: one row, of
\* trial 0, and one invalid trial
C23_Witness ==
    /\ boot.pc = "done" /\ boot.bootstrapTrials = 2 /\ boot.k = 2
    /\ boot.nInvalid = 1
    /\ Len(boot.rows) = 1 /\ boot.rows[1].trial = 0
    /\ boot.accumulated = 1

\* the bins at offsets a and b have the same separation bin and the same
\* redshift bin
SharesSepAndZ(self, a, b) ==
    /\ (self.index[a] \div NZ) % NSEP = (self.index[b] \div NZ) % NSEP
    /\ self.index[a] % NZ = self.index[b] % NZ

\* C24: fixCovariance increments, once, the covariance of each unordered
\* pair of populated bins with the same separation bin and the same
\* redshift bin (a bin with itself included), leaves every other covariance
\* element and every data value as it was, and fails changing nothing when
\* the covariance is not modifiable.
C24_FixCovarianceFrame ==
    [][\A ub \in UBOutcomes : FixCovariance(ub) =>
          IF binnedData.finalized
          THEN binnedOutcome' = "throw" /\ binnedData' = binnedData
          ELSE IF binnedOutcome' # "ok" THEN binnedData' = binnedData
          ELSE /\ binnedData'.index = binnedData.index
               /\ binnedData'.values = binnedData.values
               /\ [binnedData' EXCEPT !.covariance = binnedData.covariance] = binnedData
               /\ \A a \in 1..Len(binnedData.index), b \in 1..Len(binnedData.index) :
                     LET old == binnedData.covariance[a][b]
                         new == binnedData'.covariance[a][b]
                     IN  IF SharesSepAndZ(binnedData, a, b)
                         THEN /\ new.value = old.value
                              /\ Len(new.fixes) = Len(old.fixes) + 1
                              /\ SubSeq(new.fixes, 1, Len(old.fixes)) = old.fixes
                              /\ new.fixes = binnedData'.covariance[b][a].fixes
                         ELSE new = old]_vars
\* plate D after one fixCovariance: the bins at offsets 0 and 2 share
\* separation and redshift and have one fix, the bin at offset 1 shares
\* them with neither and has a fix on its diagonal only
C24_Witness ==
    /\ ~binnedData.isNull /\ binnedOutcome = "ok" /\ ~binnedData.finalized
    /\ Len(binnedData.index) = 3
    /\ binnedData.values = PlateFiles.D.values
    /\ Len(binnedData.covariance[1][3].fixes) = 1
    /\ Len(binnedData.covariance[3][1].fixes) = 1
    /\ Len(binnedData.covariance[2][2].fixes) = 1
    /\ binnedData.covariance[1][2].fixes = << >>
    /\ binnedData.covariance[2][3].fixes = << >>
\* fixCovariance on a finalized dataset has failed and changed nothing
C24_WitnessNotModifiable ==
    /\ ~binnedData.isNull /\ binnedData.finalized /\ binnedOutcome = "throw"
    /\ ~binnedData.fixCov /\ Len(binnedData.index) > 0

\* C25: after finalize() of a QuasarCorrelationData every surviving bin has
\* a log(lambda2/lambda1) centre strictly above llmin, and a radius with
\* rmin <= r < rmax.
C25_SurvivorsAreAboveLlmin ==
    QuasarFinalized =>
        \A k \in 1..Len(binnedData.index) :
            /\ getBinCenters(binnedData.index[k])[1] > binnedData.llmin
            /\ binnedData.rmin <= QuasarCorrelationData_getRadius(binnedData, binnedData.index[k])
            /\ QuasarCorrelationData_getRadius(binnedData, binnedData.index[k]) < binnedData.rmax
\* a bin whose log(lambda2/lambda1) centre equals llmin has survived
C25_Witness ==
    /\ QuasarFinalized
    /\ \E k \in 1..Len(binnedData.index) :
          getBinCenters(binnedData.index[k])[1] = binnedData.llmin
\* the survivors have a centre at or above llmin and a radius inside the cuts
SurvivorsAreNotBelowLlmin ==
    QuasarFinalized =>
        \A k \in 1..Len(binnedData.index) :
            /\ getBinCenters(binnedData.index[k])[1] >= binnedData.llmin
            /\ binnedData.rmin <= QuasarCorrelationData_getRadius(binnedData, binnedData.index[k])
            /\ QuasarCorrelationData_getRadius(binnedData, binnedData.index[k]) < binnedData.rmax

\* the log-lambda centre of the bin at offset k - 1
CentreOfBin(self, k) == getBinCenter(1, getBinIndices(self.index[k])[1])

\* C27: every read of dll[i] in fixCovariance is at a position that has been
\* filled and returns the log-lambda centre of the bin whose covariance is
\* being updated, whatever the global indices of the populated bins.  The
\* fixes of a dataset that is not finalized were computed on the bins it has.
C27_DllReadsAreFilledAndOfTheBin ==
    ~binnedData.isNull /\ ~binnedData.finalized =>
        \A a \in 1..Len(binnedData.index) : \A b \in 1..a :
            \A f \in 1..Len(binnedData.covariance[a][b].fixes) :
                LET fix == binnedData.covariance[a][b].fixes[f]
                IN  /\ fix[1].filled /\ fix[2].filled
                    /\ fix[1].value = CentreOfBin(binnedData, a)
                    /\ fix[2].value = CentreOfBin(binnedData, b)
\* fixCovariance has completed on a dataset whose second bin has global
\* index 2, and the fix of its diagonal was computed from a read outside dll
C27_Witness ==
    /\ ~binnedData.isNull /\ ~binnedData.finalized /\ binnedOutcome = "ok"
    /\ Len(binnedData.index) = 2 /\ binnedData.index[2] = 2
    /\ Len(binnedData.covariance[2][2].fixes) = 1
    /\ ~binnedData.covariance[2][2].fixes[1][1].filled
\* fixCovariance has completed on a dataset whose bins have the global
\* indices 8, 0, 2: the read for bin 0 is at a filled position and returned
\* the centre of bin 8
C27_WitnessOtherBin ==
    /\ ~binnedData.isNull /\ ~binnedData.finalized /\ binnedOutcome = "ok"
    /\ binnedData.index = << 8, 0, 2 >>
    /\ Len(binnedData.covariance[2][2].fixes) = 1
    /\ binnedData.covariance[2][2].fixes[1][1].filled
    /\ binnedData.covariance[2][2].fixes[1][1].value = CentreOfBin(binnedData, 1)
    /\ CentreOfBin(binnedData, 1) # CentreOfBin(binnedData, 2)
\* the reads are filled and right for the bins whose global index is their
\* offset
DllReadsOfBinsAtTheirOffsetAreRight ==
    ~binnedData.isNull /\ ~binnedData.finalized =>
        \A a \in 1..Len(binnedData.index) : \A b \in 1..a :
            \A f \in 1..Len(binnedData.covariance[a][b].fixes) :
                LET fix == binnedData.covariance[a][b].fixes[f]
                IN  /\ binnedData.index[a] = a - 1 =>
                          fix[1].filled /\ fix[1].value = CentreOfBin(binnedData, a)
                    /\ binnedData.index[b] = b - 1 =>
                          fix[2].filled /\ fix[2].value = CentreOfBin(binnedData, b)

\* C28: for a dataset finalized with cuts (rmin, rmax, llmin) and a likelihood
\* built with the same rmin and rmax, every bin the likelihood iterates over
\* has rmin <= getRadius(index) < rmax, so no evaluation fails its assert, and
\* the prediction vector handed to chiSquare has getNBinsWithData() entries.
C28_LikelihoodAssertHoldsInsideCuts ==
    (QuasarFinalized /\ nll.built
        /\ nll.rmin = binnedData.rmin /\ nll.rmax = binnedData.rmax) =>
        /\ nll.outcome = "ok"
        /\ \A k \in 1..Len(binnedData.index) :
              /\ nll.rmin <= QuasarCorrelationData_getRadius(binnedData, binnedData.index[k])
              /\ QuasarCorrelationData_getRadius(binnedData, binnedData.index[k]) < nll.rmax
        /\ nll.ncalls > 0 =>
              /\ Len(nll.pred) = getNBinsWithData(binnedData)
              /\ nll.reserved = getNBinsWithData(binnedData)
              /\ \A k \in 1..Len(nll.pred) :
                    nll.pred[k].r =
                        QuasarCorrelationData_getRadius(binnedData, binnedData.index[k])
\* the likelihood of a dataset that lost a bin to the cuts and kept two has
\* been evaluated twice
C28_Witness ==
    /\ QuasarFinalized /\ nll.built
    /\ nll.rmin = binnedData.rmin /\ nll.rmax = binnedData.rmax
    /\ nll.ncalls = 2 /\ Len(nll.pred) = 2
    /\ binnedData.index = << 0, 2 >>
    /\ Len(binnedData.rLookup) = 2
\* a likelihood built with a larger rmin than the dataset's fails its assert
C28_WitnessOtherCuts ==
    /\ QuasarFinalized /\ nll.built
    /\ nll.rmin > binnedData.rmin
    /\ nll.outcome = "assert"

\* C29: after prune(rmin,rmax,llmin) on the combined dataset the accessors by
\* offset range over exactly the kept bins: getNData() is the number of kept
\* bins, and getRadius(k), getCosAngle(k), getRedshift(k), getData(k) and
\* getVariance(k) are those of the k-th kept bin, with rmin <= getRadius(k) < rmax.
C29_AccessorsRangeOverKeptBins ==
    [][\A rmin \in RMinCuts, rmax \in RMaxCuts, llmin \in LLMinCuts :
          (/\ data.dataFinalized /\ data.binnedData = data.index
           /\ Prune(rmin, rmax, llmin)) =>
              LET kept == KeptBins(data.index, rmin, rmax, llmin)
                  was(k) == CHOOSE o \in 0..(Len(data.index) - 1) :
                                data.index[o + 1] = kept[k + 1]
              IN  /\ getNData(data') = Len(kept)
                  /\ \A k \in 0..(getNData(data') - 1) :
                        /\ getRadius(data', k) = binRadius(kept[k + 1])
                        /\ rmin <= getRadius(data', k) /\ getRadius(data', k) < rmax
                        /\ getCosAngle(data', k) = binCosAngle(kept[k + 1])
                        /\ getRedshift(data', k) = getBinCenters(kept[k + 1])[3]
                        /\ getData(data', k) = getData(data, was(k))
                        /\ getVariance(data', k) = getVariance(data, was(k))]_vars
\* the combined dataset of plates A and B after a prune that removed its
\* first bin: one bin is kept and getNData() is 2
C29_Witness ==
    /\ call.op = "prune" /\ outcome = "ok" /\ data.dataFinalized
    /\ Len(added) = 2
    /\ Len(data.index) = 2 /\ Len(data.binnedData) = 1
    /\ getNData(data) = 2
    /\ data.binnedData[1] = data.index[2]
\* prune changes the bins of _binnedData and nothing the accessors read
PruneLeavesTheAccessorsAsTheyWere ==
    [][\A rmin \in RMinCuts, rmax \in RMaxCuts, llmin \in LLMinCuts :
          Prune(rmin, rmax, llmin) =>
              /\ getNData(data') = getNData(data)
              /\ data'.data = data.data /\ data'.index = data.index
              /\ data'.r3d = data.r3d /\ data'.mu = data.mu
              /\ data'.covariance = data.covariance
              /\ data.binnedData = data.index =>
                    data'.binnedData = KeptBins(data.index, rmin, rmax, llmin)]_vars

\* the product of the inverse covariance of a plate, read element by
\* element, with its data
InverseCovarianceTimesData(self) ==
    [k \in 1..getNData(self) |->
        RSum([j \in 1..getNData(self) |->
                 RMul(self.covariance.icov[k][j], self.data[j])], getNData(self))]

\* C30: for every per-plate dataset icovData = InverseCovariance * data after
\* load and after every applyTheoryOffsets (which changes data), so a later
\* add accumulates an icovData consistent with the plate's current data and
\* covariance.
C30_IcovDataFollowsData ==
    (/\ call.op \in {"load", "compress", "applyTheoryOffsets"} /\ outcome = "ok"
     /\ ~data.covariance.isNull) =>
        /\ data.dataFinalized /\ data.covarianceFinalized
        /\ Len(data.icovData) = getNData(data)
        /\ data.icovData = InverseCovarianceTimesData(data)
        /\ \A repeat \in 1..MaxSize :
              LyaData_add(NewLyaData, data, repeat).obj.icovData =
                  VecScale(repeat, InverseCovarianceTimesData(data))
\* plate A, whose inverse covariance is not diagonal, after two
\* applyTheoryOffsets that moved its data from (1,3) to (2,4)
C30_Witness ==
    /\ call.op = "applyTheoryOffsets" /\ outcome = "ok" /\ nOffsets = 2
    /\ data.covariance.icov = IntMat(PlateFiles.A.icov)
    /\ data.data = IntVec(<< 2, 4 >>)
    /\ data.icovData = IntVec(<< 8, 10 >>)

\* C26: for a bin centre (ll, sep, z) and separation bin width dsep the
\* transform returns r = sqrt(los^2 + transverse^2) and mu = |los| / r with
\* los = D(z2) - D(z1), z1 = (z+1)/e^(ll/2) - 1, z2 = (z+1)*e^(ll/2) - 1 and
\* the transverse term built from swgt = sep + dsep^2/(12*sep); 0 <= mu <= 1;
\* and LyaData::transform and QuasarCorrelationData::transform agree.
C26_TransformIsTwoNormWithWeightedSeparation ==
    centre.called =>
        LET zp1 == RAdd(centre.z, RInt(1))
            z1 == RSub(RDiv(zp1, centre.expHalfLl), RInt(1))
            z2 == RSub(RMul(zp1, centre.expHalfLl), RInt(1))
            los == RSub(getLineOfSightComovingDistance(centre.cosmology, z2),
                        getLineOfSightComovingDistance(centre.cosmology, z1))
            swgt == RAdd(centre.sep,
                         RDiv(RMul(centre.dsep, centre.dsep), RMul(RInt(12), centre.sep)))
            transverse == RMul(RMul(getTransverseComovingScale(centre.cosmology, centre.z),
                                    swgt), arcminToRad)
            rsq == RAdd(RMul(los, los), RMul(transverse, transverse))
        IN  /\ centre.lya.rsq = rsq
            /\ ~centre.lya.mu.nan
            /\ centre.lya.mu.densq = rsq
            /\ centre.lya.mu.num = (IF RLess(los, RZero) THEN RSub(RZero, los) ELSE los)
            /\ ~RLess(centre.lya.mu.num, RZero)
            /\ ~RLess(centre.lya.mu.densq, RMul(centre.lya.mu.num, centre.lya.mu.num))
            /\ centre.quasar = centre.lya
\* a centre with a negative log(lambda2/lambda1) and a wide separation bin:
\* the line-of-sight separation is negative and mu lies strictly inside (0,1)
C26_Witness ==
    /\ centre.called
    /\ centre.expHalfLl = Rat(1, 2) /\ centre.dsep = RInt(6876) /\ centre.sep = RInt(1719)
    /\ ~centre.lya.mu.nan
    /\ RLess(RZero, centre.lya.mu.num)
    /\ RLess(RMul(centre.lya.mu.num, centre.lya.mu.num), centre.lya.mu.densq)
    /\ centre.quasar = centre.lya


==============================================================================
